---- MODULE Spec2Model ----
(***************************************************************************)
(* Fog-of-war maze agent: the grid and its visibility mask (src/grid.py),  *)
(* the search algorithms over a neighbor function (src/search.py) and the  *)
(* online agent's perceive-plan-act cycle (src/agent.py).                  *)
(***************************************************************************)
EXTENDS Integers, Sequences, FiniteSets, TLC

\* ---------------------------------------------------------------- bounds
\* Grids of the model have Height rows and Width columns and at most
\* MaxWalls wall cells.
Height == 2
Width == 3
MaxWalls == 2
\* Arbitrary (directed) neighbor functions live on MaxNodes nodes and return
\* lists of at most MaxDeg nodes.
MaxNodes == 3
MaxDeg == 2

\* ------------------------------------------------------------- grid.py
Cells == (0 .. Height - 1) \X (0 .. Width - 1)

\* Python values of the functions that may fall off their end: True, False,
\* and None (the value of a call that executes no return statement).
PyTrue == "True"
PyFalse == "False"
None == "None"

\* A value is truthy in an `if` or a filter when it is True (None and False
\* are not).
Truthy(x) == x = PyTrue

in_bounds(r, c) == r >= 0 /\ r < Height /\ c >= 0 /\ c < Width

is_wall(g, r, c) ==
  IF in_bounds(r, c) = TRUE
  THEN (IF g[<<r, c>>] = "1" THEN PyTrue ELSE PyFalse)
  ELSE None

passable(g, r, c) ==
  IF in_bounds(r, c) = TRUE
  THEN (IF g[<<r, c>>] = "0" \/ g[<<r, c>>] = "S" \/ g[<<r, c>>] = "G"
        THEN PyTrue ELSE PyFalse)
  ELSE None

\* The list xs without the elements that fail keep.
RECURSIVE FilterSeq(_, _)
FilterSeq(xs, keep) ==
  IF xs = <<>> THEN <<>>
  ELSE IF Head(xs) \in keep
       THEN <<Head(xs)>> \o FilterSeq(Tail(xs), keep)
       ELSE FilterSeq(Tail(xs), keep)

InBoundsCells == {p \in ((-1) .. Height) \X ((-1) .. Width) : in_bounds(p[1], p[2])}

\* neighbors4 without its early return for an out-of-bounds (r, c).
neighbors4_no_early_return(r, c) ==
  FilterSeq(<< <<r - 1, c>>, <<r, c + 1>>, <<r + 1, c>>, <<r, c - 1>> >>,
            InBoundsCells)

neighbors4(r, c) ==
  IF ~in_bounds(r, c) THEN <<>>
  ELSE FilterSeq(<< <<r - 1, c>>, <<r, c + 1>>, <<r + 1, c>>, <<r, c - 1>> >>,
                 InBoundsCells)

tile_at(g, r, c) == IF in_bounds(r, c) = TRUE THEN g[<<r, c>>] ELSE None

\* The visibility mask is the set of cells whose flag is True.
is_visible(vis, r, c) ==
  IF ~in_bounds(r, c) THEN FALSE ELSE <<r, c>> \in vis

\* The for-loop of reveal_from over the neighbor list: st = [visible, revealed].
RECURSIVE reveal_loop(_, _)
reveal_loop(st, neighbors) ==
  IF neighbors = <<>> THEN st
  ELSE LET nb == Head(neighbors) IN
       IF is_visible(st.visible, nb[1], nb[2]) = FALSE
       THEN reveal_loop([visible |-> st.visible \cup {nb},
                         revealed |-> Append(st.revealed, nb)], Tail(neighbors))
       ELSE reveal_loop(st, Tail(neighbors))

\* Mutant: the mask is rebuilt around pos (what was visible before is lost).
reveal_from_rebuild(vis, pos) ==
  reveal_loop([visible |-> {pos}, revealed |-> <<pos>>],
              neighbors4(pos[1], pos[2]))

\* Mutant: pos itself is not marked, only its neighbors are.
reveal_from_neighbors_only(vis, pos) ==
  reveal_loop([visible |-> vis, revealed |-> <<>>], neighbors4(pos[1], pos[2]))

IndexError == "IndexError"

\* The place a Python list of length n gives for the index i: <<i>> itself,
\* <<n + i>> for a negative i down to -n, and none (IndexError) otherwise.
list_index(i, n) ==
  IF i >= 0 /\ i < n THEN <<i>>
  ELSE IF i < 0 /\ i >= -n THEN <<n + i>>
  ELSE <<>>

\* reveal_from(pos): the new mask, the returned list, and the exception it
\* raised if any. visible[pos[0]][pos[1]] is indexed without a bounds test.
reveal_from(vis, pos) ==
  LET neighbors == neighbors4(pos[1], pos[2])
      r == list_index(pos[1], Height)
      c == list_index(pos[2], Width)
  IN IF r = <<>> \/ c = <<>>
     THEN [visible |-> vis, revealed |-> <<>>, raised |-> IndexError]
     ELSE LET st0 == IF <<r[1], c[1]>> \notin vis
                     THEN [visible |-> vis \cup {<<r[1], c[1]>>},
                           revealed |-> <<pos>>]
                     ELSE [visible |-> vis, revealed |-> <<>>]
              st == reveal_loop(st0, neighbors)
          IN [visible |-> st.visible, revealed |-> st.revealed,
              raised |-> None]

\* get_visible_neighbors without the is_visible test.
get_visible_neighbors_any_passable(g, vis, pos) ==
  LET neighbors == neighbors4(pos[1], pos[2]) IN
  FilterSeq(neighbors,
            {n \in Cells : /\ in_bounds(n[1], n[2]) = TRUE
                           /\ passable(g, n[1], n[2]) = PyTrue})

\* get_visible_neighbors without the passable test.
get_visible_neighbors_any_visible(g, vis, pos) ==
  LET neighbors == neighbors4(pos[1], pos[2]) IN
  FilterSeq(neighbors,
            {n \in Cells : /\ in_bounds(n[1], n[2]) = TRUE
                           /\ is_visible(vis, n[1], n[2]) = TRUE})

get_visible_neighbors(g, vis, pos) ==
  LET neighbors == neighbors4(pos[1], pos[2]) IN
  FilterSeq(neighbors,
            {n \in Cells : /\ in_bounds(n[1], n[2]) = TRUE
                           /\ is_visible(vis, n[1], n[2]) = TRUE
                           /\ passable(g, n[1], n[2]) = PyTrue})

visible_tiles(vis) == {p \in Cells : is_visible(vis, p[1], p[2]) = TRUE}

\* Grid.from_csv on the rows csv.reader gives (a row is a list of symbols).
\* The scan of one row from column c on: st holds the counts and positions
\* of S and G, and the error raised if any. Coordinates count from 0.
ValueError == "ValueError"

RECURSIVE scan_row(_, _, _, _)
scan_row(row, r, c, st) ==
  IF c > Len(row) THEN st
  ELSE LET element == row[c] IN
       IF element \notin {"0", "1", "S", "G"}
       THEN [st EXCEPT !.raised = ValueError, !.message = "Invalid element"]
       ELSE IF element = "S"
       THEN scan_row(row, r, c + 1, [st EXCEPT !.s_count = @ + 1,
                                               !.s_pos = <<r - 1, c - 1>>])
       ELSE IF element = "G"
       THEN scan_row(row, r, c + 1, [st EXCEPT !.g_count = @ + 1,
                                               !.g_pos = <<r - 1, c - 1>>])
       ELSE scan_row(row, r, c + 1, st)

\* The loop over the rows from row r on.
RECURSIVE scan_rows(_, _, _, _)
scan_rows(rows, r, expected_width, st) ==
  IF r > Len(rows) THEN st
  ELSE IF Len(rows[r]) # expected_width
  THEN [st EXCEPT !.raised = ValueError, !.message = "Non-rectangular map"]
  ELSE LET st1 == scan_row(rows[r], r, 1, st)
       IN IF st1.raised # None THEN st1
          ELSE scan_rows(rows, r + 1, expected_width, st1)

\* No Grid is returned: the call raised.
Raised(message) ==
  [raised |-> ValueError, message |-> message, grid |-> <<>>,
   height |-> 0, width |-> 0, start |-> <<0, 0>>, goal |-> <<0, 0>>,
   visible |-> <<>>]

\* Mutant: a map with more than one S or G is accepted (the last one counts).
from_csv_at_least_one(rows) ==
  IF rows = <<>> THEN Raised("Map CSV is empty")
  ELSE LET expected_width == Len(rows[1])
           st == scan_rows(rows, 1, expected_width,
                           [s_count |-> 0, g_count |-> 0, s_pos |-> <<0, 0>>,
                            g_pos |-> <<0, 0>>, raised |-> None,
                            message |-> ""])
       IN IF st.raised # None THEN Raised(st.message)
          ELSE IF st.s_count < 1 THEN Raised("Expected exactly one 'S'")
          ELSE IF st.g_count < 1 THEN Raised("Expected exactly one 'G'")
          ELSE [raised |-> None, message |-> "", grid |-> rows,
                height |-> Len(rows), width |-> expected_width,
                start |-> st.s_pos, goal |-> st.g_pos,
                visible |-> [r \in 1 .. Len(rows) |->
                               [c \in 1 .. expected_width |-> FALSE]]]

from_csv(rows) ==
  IF rows = <<>> THEN Raised("Map CSV is empty")
  ELSE LET expected_width == Len(rows[1])
           st == scan_rows(rows, 1, expected_width,
                           [s_count |-> 0, g_count |-> 0, s_pos |-> <<0, 0>>,
                            g_pos |-> <<0, 0>>, raised |-> None,
                            message |-> ""])
       IN IF st.raised # None THEN Raised(st.message)
          ELSE IF st.s_count # 1 THEN Raised("Expected exactly one 'S'")
          ELSE IF st.g_count # 1 THEN Raised("Expected exactly one 'G'")
          ELSE [raised |-> None, message |-> "", grid |-> rows,
                height |-> Len(rows), width |-> expected_width,
                start |-> st.s_pos, goal |-> st.g_pos,
                visible |-> [r \in 1 .. Len(rows) |->
                               [c \in 1 .. expected_width |-> FALSE]]]

\* ----------------------------------------------------------- search.py
manhattan(a, b) ==
  (IF a[1] >= b[1] THEN a[1] - b[1] ELSE b[1] - a[1])
  + (IF a[2] >= b[2] THEN a[2] - b[2] ELSE b[2] - a[2])

Reverse(xs) == [i \in 1 .. Len(xs) |-> xs[Len(xs) + 1 - i]]

\* The while-loop of reconstruct_path: path is built goal-first.
RECURSIVE reconstruct_loop(_, _, _, _)
reconstruct_loop(came_from, start, current, path) ==
  IF current # start
  THEN IF current \notin DOMAIN came_from
       THEN <<>>
       ELSE reconstruct_loop(came_from, start, came_from[current],
                             Append(path, current))
  ELSE Reverse(Append(path, start))

\* Mutant: the path is returned goal-first (the reverse() is missing).
reconstruct_path_noreverse(came_from, start, goal) ==
  Reverse(reconstruct_loop(came_from, start, goal, <<>>))

\* Mutant: the parent map is consulted before the loop's current != start
\* test, so start = goal (no parent recorded) yields no path.
reconstruct_path_lookup_first(came_from, start, goal) ==
  IF goal \notin DOMAIN came_from THEN <<>>
  ELSE reconstruct_loop(came_from, start, goal, <<>>)

reconstruct_path(came_from, start, goal) ==
  reconstruct_loop(came_from, start, goal, <<>>)

\* A neighbor function handed to a search is either the caller's function
\* (fn) or _with_stats' counted_neighbors closure around it (counted).  A call
\* returns the neighbor list and the closure's counter n after the call.
plain_neighbors(fn) == [counted |-> FALSE, fn |-> fn]

counted_neighbors(fn) == [counted |-> TRUE, fn |-> fn]

call_neighbors(nf, n, pos) ==
  IF nf.counted
  THEN [ret |-> nf.fn[pos], n |-> n + 1]
  ELSE [ret |-> nf.fn[pos], n |-> n]

\* What a search returns, with the closure's counter n, the number of
\* neighbor-function invocations the search made (calls) and the parent map
\* as the search left it (came_from).
search_return(path, st) ==
  [path |-> path, n |-> st.n, calls |-> st.calls, came_from |-> st.came_from]

\* Mutant: the for-loop stops after the first neighbor it enqueues.
RECURSIVE bfs_expand_break(_, _, _)
bfs_expand_break(st, current, nbrs) ==
  IF nbrs = <<>> THEN st
  ELSE LET neighbor == Head(nbrs) IN
       IF neighbor \notin st.visited
       THEN [st EXCEPT !.visited = @ \cup {neighbor},
                       !.came_from = (neighbor :> current) @@ @,
                       !.queue = Append(@, neighbor)]
       ELSE bfs_expand_break(st, current, Tail(nbrs))

\* -- bfs_neighbors
RECURSIVE bfs_expand(_, _, _)
bfs_expand(st, current, nbrs) ==
  IF nbrs = <<>> THEN st
  ELSE LET neighbor == Head(nbrs) IN
       IF neighbor \notin st.visited
       THEN bfs_expand([st EXCEPT !.visited = @ \cup {neighbor},
                                  !.came_from = (neighbor :> current) @@ @,
                                  !.queue = Append(@, neighbor)],
                       current, Tail(nbrs))
       ELSE bfs_expand(st, current, Tail(nbrs))

RECURSIVE bfs_loop(_, _, _, _)
bfs_loop(st, start, goal, nf) ==
  IF st.queue = <<>> THEN search_return(<<>>, st)
  ELSE LET current == Head(st.queue)
           st1 == [st EXCEPT !.queue = Tail(@)]
       IN IF current = goal
          THEN search_return(reconstruct_path(st1.came_from, start, goal), st1)
          ELSE LET c == call_neighbors(nf, st1.n, current)
                   st2 == [st1 EXCEPT !.n = c.n, !.calls = @ + 1]
               IN bfs_loop(bfs_expand(st2, current, c.ret), start, goal, nf)

\* Mutant: start is not put into visited.
bfs_neighbors_start_unvisited(start, goal, nf) ==
  bfs_loop([queue |-> <<start>>, came_from |-> <<>>, visited |-> {},
            n |-> 0, calls |-> 0], start, goal, nf)

bfs_neighbors(start, goal, nf) ==
  bfs_loop([queue |-> <<start>>, came_from |-> <<>>, visited |-> {start},
            n |-> 0, calls |-> 0], start, goal, nf)

\* -- dfs_neighbors
RECURSIVE dfs_expand(_, _, _)
dfs_expand(st, current, nbrs) ==
  IF nbrs = <<>> THEN st
  ELSE LET neighbor == Head(nbrs) IN
       IF neighbor \notin st.visited
       THEN dfs_expand([st EXCEPT !.visited = @ \cup {neighbor},
                                  !.came_from = (neighbor :> current) @@ @,
                                  !.stack = Append(@, neighbor)],
                       current, Tail(nbrs))
       ELSE dfs_expand(st, current, Tail(nbrs))

RECURSIVE dfs_loop(_, _, _, _)
dfs_loop(st, start, goal, nf) ==
  IF st.stack = <<>> THEN search_return(<<>>, st)
  ELSE LET current == st.stack[Len(st.stack)]
           st1 == [st EXCEPT !.stack = SubSeq(@, 1, Len(@) - 1)]
       IN IF current = goal
          THEN search_return(reconstruct_path(st1.came_from, start, goal), st1)
          ELSE LET c == call_neighbors(nf, st1.n, current)
                   st2 == [st1 EXCEPT !.n = c.n, !.calls = @ + 1]
               IN dfs_loop(dfs_expand(st2, current, c.ret), start, goal, nf)

dfs_neighbors(start, goal, nf) ==
  dfs_loop([stack |-> <<start>>, came_from |-> <<>>, visited |-> {start},
            n |-> 0, calls |-> 0], start, goal, nf)

\* -- heapq over (priority, node) tuples.  Python compares the tuples
\* lexicographically: the priority, then the node's row, then its column.
entry_less(a, b) ==
  \/ a[1] < b[1]
  \/ /\ a[1] = b[1]
     /\ \/ a[2][1] < b[2][1]
        \/ a[2][1] = b[2][1] /\ a[2][2] < b[2][2]

heappush(heap, item) == Append(heap, item)

\* Mutant: the last entry pushed is popped (list.pop() for heappop).
heappop_last(heap) ==
  [item |-> heap[Len(heap)], heap |-> SubSeq(heap, 1, Len(heap) - 1)]

\* heappop removes and returns the smallest entry; the heap is kept as the
\* list of its entries (equal entries are interchangeable).
heappop(heap) ==
  LET i == CHOOSE k \in 1 .. Len(heap) :
             \A j \in 1 .. Len(heap) :
               /\ ~entry_less(heap[j], heap[k])
               /\ (heap[j] = heap[k] => k <= j)
  IN [item |-> heap[i],
      heap |-> SubSeq(heap, 1, i - 1) \o SubSeq(heap, i + 1, Len(heap))]

\* -- ucs_neighbors.  log records the heappush and heappop calls in the order
\* they are made, each with its entry; it is returned next to the path.
ucs_return(path, st) ==
  [path |-> path, n |-> st.n, calls |-> st.calls, came_from |-> st.came_from,
   log |-> st.log]

RECURSIVE ucs_expand(_, _, _)
ucs_expand(st, current, nbrs) ==
  IF nbrs = <<>> THEN st
  ELSE LET neighbor == Head(nbrs)
           new_cost == st.cost_so_far[current] + 1
       IN IF \/ neighbor \notin DOMAIN st.cost_so_far
             \/ new_cost < st.cost_so_far[neighbor]
          THEN ucs_expand([st EXCEPT
                             !.cost_so_far = (neighbor :> new_cost) @@ @,
                             !.came_from = (neighbor :> current) @@ @,
                             !.frontier = heappush(@, <<new_cost, neighbor>>),
                             !.log = Append(@, <<"push", <<new_cost, neighbor>>>>)],
                          current, Tail(nbrs))
          ELSE ucs_expand(st, current, Tail(nbrs))

RECURSIVE ucs_loop(_, _, _, _)
ucs_loop(st, start, goal, nf) ==
  IF st.frontier = <<>> THEN ucs_return(<<>>, st)
  ELSE LET popped == heappop(st.frontier)
           current == popped.item[2]
           st1 == [st EXCEPT !.frontier = popped.heap,
                             !.log = Append(@, <<"pop", popped.item>>)]
       IN IF current = goal
          THEN ucs_return(reconstruct_path(st1.came_from, start, goal), st1)
          ELSE LET c == call_neighbors(nf, st1.n, current)
                   st2 == [st1 EXCEPT !.n = c.n, !.calls = @ + 1]
               IN ucs_loop(ucs_expand(st2, current, c.ret), start, goal, nf)

ucs_neighbors(start, goal, nf) ==
  ucs_loop([frontier |-> heappush(<<>>, <<0, start>>), came_from |-> <<>>,
            cost_so_far |-> (start :> 0), n |-> 0, calls |-> 0,
            log |-> <<<<"push", <<0, start>>>>>>],
           start, goal, nf)

\* -- astar_neighbors (h = manhattan)
RECURSIVE astar_expand(_, _, _, _)
astar_expand(st, current, goal, nbrs) ==
  IF nbrs = <<>> THEN st
  ELSE LET neighbor == Head(nbrs)
           tentative_g == st.g_score[current] + 1
       IN IF \/ neighbor \notin DOMAIN st.g_score
             \/ tentative_g < st.g_score[neighbor]
          THEN LET f_score == tentative_g + manhattan(neighbor, goal) IN
               astar_expand([st EXCEPT
                               !.g_score = (neighbor :> tentative_g) @@ @,
                               !.came_from = (neighbor :> current) @@ @,
                               !.frontier = heappush(@, <<f_score, neighbor>>)],
                            current, goal, Tail(nbrs))
          ELSE astar_expand(st, current, goal, Tail(nbrs))

RECURSIVE astar_loop(_, _, _, _)
astar_loop(st, start, goal, nf) ==
  IF st.frontier = <<>> THEN search_return(<<>>, st)
  ELSE LET popped == heappop(st.frontier)
           current == popped.item[2]
           st1 == [st EXCEPT !.frontier = popped.heap]
       IN IF current = goal
          THEN search_return(reconstruct_path(st1.came_from, start, goal), st1)
          ELSE LET c == call_neighbors(nf, st1.n, current)
                   st2 == [st1 EXCEPT !.n = c.n, !.calls = @ + 1]
               IN astar_loop(astar_expand(st2, current, goal, c.ret),
                             start, goal, nf)

astar_neighbors(start, goal, nf) ==
  astar_loop([frontier |-> heappush(<<>>, <<0, start>>), came_from |-> <<>>,
              g_score |-> (start :> 0), n |-> 0, calls |-> 0],
             start, goal, nf)

\* -- greedy_neighbors (h = manhattan)
RECURSIVE greedy_expand(_, _, _, _)
greedy_expand(st, current, goal, nbrs) ==
  IF nbrs = <<>> THEN st
  ELSE LET neighbor == Head(nbrs) IN
       IF neighbor \in st.visited
       THEN greedy_expand(st, current, goal, Tail(nbrs))
       ELSE greedy_expand([st EXCEPT
                             !.visited = @ \cup {neighbor},
                             !.came_from = (neighbor :> current) @@ @,
                             !.frontier = heappush(@, <<manhattan(neighbor, goal),
                                                        neighbor>>)],
                          current, goal, Tail(nbrs))

RECURSIVE greedy_loop(_, _, _, _)
greedy_loop(st, start, goal, nf) ==
  IF st.frontier = <<>> THEN search_return(<<>>, st)
  ELSE LET popped == heappop(st.frontier)
           current == popped.item[2]
           st1 == [st EXCEPT !.frontier = popped.heap]
       IN IF current = goal
          THEN search_return(reconstruct_path(st1.came_from, start, goal), st1)
          ELSE LET c == call_neighbors(nf, st1.n, current)
                   st2 == [st1 EXCEPT !.n = c.n, !.calls = @ + 1]
               IN greedy_loop(greedy_expand(st2, current, goal, c.ret),
                              start, goal, nf)

greedy_neighbors(start, goal, nf) ==
  greedy_loop([frontier |-> heappush(<<>>, <<manhattan(start, goal), start>>),
               came_from |-> <<>>, visited |-> {start}, n |-> 0, calls |-> 0],
              start, goal, nf)

AlgoNames == {"bfs", "dfs", "ucs", "astar", "greedy"}

ALGORITHMS_NEIGHBORS(name, start, goal, nf) ==
  CASE name = "bfs" -> bfs_neighbors(start, goal, nf)
    [] name = "dfs" -> dfs_neighbors(start, goal, nf)
    [] name = "ucs" -> ucs_neighbors(start, goal, nf)
    [] name = "astar" -> astar_neighbors(start, goal, nf)
    [] name = "greedy" -> greedy_neighbors(start, goal, nf)

\* Mutant: cost is the number of nodes of the path, not of its edges.
with_stats_len_cost(name, start, goal, fn) ==
  LET r == ALGORITHMS_NEIGHBORS(name, start, goal, counted_neighbors(fn))
  IN [path |-> r.path, nodes_expanded |-> r.n, cost |-> Len(r.path)]

\* _with_stats: the search run on the counted closure; the SearchResult
\* (runtime, a wall-clock reading, is left out).
with_stats(name, start, goal, fn) ==
  LET r == ALGORITHMS_NEIGHBORS(name, start, goal, counted_neighbors(fn))
      path == r.path
      cost == IF path # <<>>
              THEN (IF Len(path) - 1 > 0 THEN Len(path) - 1 ELSE 0)
              ELSE 0
  IN [path |-> path, nodes_expanded |-> r.n, cost |-> cost]

\* The plain variant called by a client: the path (and the number of calls
\* it made of the neighbor function).
plain_search(name, start, goal, fn) ==
  ALGORITHMS_NEIGHBORS(name, start, goal, plain_neighbors(fn))

\* ------------------------------------------------------------- agent.py
\* A local variable: Only({Body : x \in {v}}) computes v once and is Body
\* evaluated with x bound to it.
Only(S) == CHOOSE r \in S : TRUE

\* Mutant: the tile is compared with the number 1, which no tile equals.
RECURSIVE classify_number_one(_, _, _)
classify_number_one(g, k, newly) ==
  IF newly = <<>> THEN k
  ELSE LET p == Head(newly)
       IN classify_number_one(g, [k EXCEPT !.known_passable = @ \cup {p}],
                              Tail(newly))

\* The loop that files each newly revealed coordinate under known_walls
\* (tile '1') or known_passable: k = [known_passable, known_walls].
RECURSIVE classify(_, _, _)
classify(g, k, newly) ==
  IF newly = <<>> THEN k
  ELSE LET p == Head(newly)
           tile == g[p]
       IN IF tile = "1"
          THEN classify(g, [k EXCEPT !.known_walls = @ \cup {p}], Tail(newly))
          ELSE classify(g, [k EXCEPT !.known_passable = @ \cup {p}], Tail(newly))

\* Perception: reveal_from(current) on the grid, then classify what is new.
\* a is the agent together with the mask of the grid it holds.
perceive(g, a) ==
  Only({Only({[a EXCEPT !.visible = newly.visible,
                          !.known_passable = k.known_passable,
                          !.known_walls = k.known_walls] :
              k \in {classify(g, [known_passable |-> a.known_passable,
                           known_walls |-> a.known_walls], newly.revealed)}}) :
       newly \in {reveal_from(a.visible, a.current)}})

\* Metrics(start, goal) after __post_init__ (start and goal are the Grid's;
\* runtime, a wall-clock reading, is left out).
Metrics(s) ==
  [steps |-> 0, nodes_expanded |-> 0, replans |-> 0, cost |-> 0,
   reached_goal |-> FALSE, path_taken |-> <<s>>]

\* OnlineAgent.__init__ on a Grid (tiles g, start s, mask vis).
OnlineAgent(g, s, vis, fm) ==
  LET a0 == [current |-> s, visible |-> vis,
             known_passable |-> {}, known_walls |-> {},
             current_plan |-> <<>>, metrics |-> Metrics(s)]
  IN IF fm
     THEN [a0 EXCEPT !.known_walls = {p \in Cells : g[p] = "1"},
                     !.known_passable = {p \in Cells : g[p] # "1"}]
     ELSE perceive(g, a0)

agent_in_bounds(pos) ==
  0 <= pos[1] /\ pos[1] < Height /\ 0 <= pos[2] /\ pos[2] < Width

\* Mutant: the moves are tried Left, Down, Right, Up.
known_neighbors_reversed(kp, pos) ==
  FilterSeq(<< <<pos[1], pos[2] - 1>>, <<pos[1] + 1, pos[2]>>,
               <<pos[1], pos[2] + 1>>, <<pos[1] - 1, pos[2]>> >>, kp)

known_neighbors(kp, pos) ==
  FilterSeq(<< <<pos[1] - 1, pos[2]>>, <<pos[1], pos[2] + 1>>,
               <<pos[1] + 1, pos[2]>>, <<pos[1], pos[2] - 1>> >>, kp)

\* Mutant: the full-map neighbors are not filtered by passable.
neighbor_fn_unfiltered(g, fm, vis) ==
  IF fm
  THEN [p \in Cells |-> neighbors4(p[1], p[2])]
  ELSE [p \in Cells |-> get_visible_neighbors(g, vis, p)]

\* plan_to's neighbor function: the grid's passable neighbors in full-map
\* mode, get_visible_neighbors under fog (a Grid has both methods).
neighbor_fn(g, fm, vis) ==
  IF fm
  THEN [p \in Cells |->
          FilterSeq(neighbors4(p[1], p[2]),
                    {n \in Cells : Truthy(passable(g, n[1], n[2]))})]
  ELSE [p \in Cells |-> get_visible_neighbors(g, vis, p)]

\* plan_to(target): the path, and the metrics after the call (a with-stats
\* search adds its nodes_expanded and overwrites cost).
plan_to(g, fm, srch, a, target) ==
  IF srch.stats
  THEN Only({[path |-> res.path,
               metrics |-> [a.metrics EXCEPT
                              !.nodes_expanded = @ + res.nodes_expanded,
                              !.cost = res.cost]] :
            res \in {with_stats(srch.algo, a.current, target,
                       neighbor_fn(g, fm, a.visible))}})
  ELSE [path |-> plain_search(srch.algo, a.current, target,
                              neighbor_fn(g, fm, a.visible)).path,
        metrics |-> a.metrics]

\* Mutant: the _in_bounds test is missing (a cell on the rim always has an
\* unknown neighbor).
is_frontier_no_bounds(a, cur) ==
  \E nb \in {<<cur[1] - 1, cur[2]>>, <<cur[1], cur[2] + 1>>,
             <<cur[1] + 1, cur[2]>>, <<cur[1], cur[2] - 1>>} :
    nb \notin a.known_passable /\ nb \notin a.known_walls

\* cur has an in-bounds neighbor that is neither known passable nor a known
\* wall.
is_frontier(a, cur) ==
  \E nb \in {<<cur[1] - 1, cur[2]>>, <<cur[1], cur[2] + 1>>,
             <<cur[1] + 1, cur[2]>>, <<cur[1], cur[2] - 1>>} :
    /\ agent_in_bounds(nb)
    /\ nb \notin a.known_passable /\ nb \notin a.known_walls

\* The expansion loop of choose_frontier: st = [q, visited].
RECURSIVE frontier_expand(_, _)
frontier_expand(st, nbrs) ==
  IF nbrs = <<>> THEN st
  ELSE LET n == Head(nbrs) IN
       IF n \notin st.visited
       THEN frontier_expand([q |-> Append(st.q, n),
                             visited |-> st.visited \cup {n}], Tail(nbrs))
       ELSE frontier_expand(st, Tail(nbrs))

\* choose_frontier's None (a coordinate has two components, this has none).
NoFrontier == <<>>

RECURSIVE frontier_loop(_, _)
frontier_loop(a, st) ==
  IF st.q = <<>> THEN NoFrontier
  ELSE LET cur == Head(st.q)
           st1 == [st EXCEPT !.q = Tail(@)]
       IN IF is_frontier(a, cur) THEN cur
          ELSE frontier_loop(a, frontier_expand(st1,
                                 known_neighbors(a.known_passable, cur)))

choose_frontier(a) ==
  frontier_loop(a, [q |-> <<a.current>>, visited |-> {a.current}])

\* The frontier branch of "Ensure we have a plan": a1 is the agent after the
\* failed plan_to(goal), frontier the result of choose_frontier().  searches
\* counts the calls of self.search made so far by this step().
plan_to_frontier(g, fm, srch, a1, frontier) ==
  IF frontier = NoFrontier
  THEN [agent |-> a1, ok |-> FALSE, searches |-> 1]
  ELSE Only({IF r2.path # <<>>
              THEN [agent |-> [a1 EXCEPT !.metrics = r2.metrics,
                                         !.current_plan = r2.path],
                    ok |-> TRUE, searches |-> 2]
              ELSE [agent |-> [a1 EXCEPT !.metrics = r2.metrics],
                    ok |-> FALSE, searches |-> 2] :
            r2 \in {plan_to(g, fm, srch, a1, frontier)}})

\* Mutant: the plan to the goal is recomputed on every step().
ensure_plan_always(g, gl, fm, srch, a) ==
  Only({IF r.path # <<>>
         THEN [agent |-> [a EXCEPT !.metrics = r.metrics,
                                   !.current_plan = r.path],
               ok |-> TRUE, searches |-> 1]
         ELSE IF a.current_plan # <<>>
         THEN [agent |-> [a EXCEPT !.metrics = r.metrics], ok |-> TRUE,
               searches |-> 1]
         ELSE Only({Only({plan_to_frontier(g, fm, srch, a1, frontier) :
                          frontier \in {choose_frontier(a1)}}) :
                   a1 \in {[a EXCEPT !.metrics = r.metrics]}}) :
       r \in {plan_to(g, fm, srch, a, gl)}})

\* "Ensure we have a plan": the agent after planning, whether step() goes on
\* to follow the plan (ok) or returns False here, and the number of calls of
\* self.search it made.
ensure_plan(g, gl, fm, srch, a) ==
  IF a.current_plan # <<>> THEN [agent |-> a, ok |-> TRUE, searches |-> 0]
  ELSE Only({IF r.path # <<>>
              THEN [agent |-> [a EXCEPT !.metrics = r.metrics,
                                        !.current_plan = r.path],
                    ok |-> TRUE, searches |-> 1]
              ELSE Only({Only({plan_to_frontier(g, fm, srch, a1, frontier) :
                               frontier \in {choose_frontier(a1)}}) :
                        a1 \in {[a EXCEPT !.metrics = r.metrics]}}) :
            r \in {plan_to(g, fm, srch, a, gl)}})

\* follow_plan without the known-wall test on the next coordinate.
follow_plan_no_wall_check(g, fm, a) ==
  IF Len(a.current_plan) >= 2
  THEN Only({Only({[agent |-> IF ~fm THEN perceive(g, moved) ELSE moved,
                    ret |-> TRUE] :
                  moved \in {[a EXCEPT !.current = next_pos,
                                       !.metrics.steps = @ + 1,
                                       !.metrics.path_taken = Append(@, next_pos),
                                       !.current_plan = Tail(@)]}}) :
            next_pos \in {a.current_plan[2]}})
  ELSE [agent |-> [a EXCEPT !.current_plan = <<>>], ret |-> TRUE]

\* follow_plan that does not drop the executed coordinate from the plan.
follow_plan_keep_plan(g, fm, a) ==
  IF Len(a.current_plan) >= 2
  THEN Only({IF next_pos \in a.known_walls
              THEN [agent |-> [a EXCEPT !.metrics.replans = @ + 1,
                                        !.current_plan = <<>>],
                    ret |-> TRUE]
              ELSE Only({[agent |-> IF ~fm THEN perceive(g, moved) ELSE moved,
                           ret |-> TRUE] :
                        moved \in {[a EXCEPT !.current = next_pos,
                                  !.metrics.steps = @ + 1,
                                  !.metrics.path_taken = Append(@, next_pos)]}}) :
            next_pos \in {a.current_plan[2]}})
  ELSE [agent |-> [a EXCEPT !.current_plan = <<>>], ret |-> TRUE]

\* follow_plan that does not append the new position to path_taken.
follow_plan_no_append(g, fm, a) ==
  IF Len(a.current_plan) >= 2
  THEN Only({IF next_pos \in a.known_walls
              THEN [agent |-> [a EXCEPT !.metrics.replans = @ + 1,
                                        !.current_plan = <<>>],
                    ret |-> TRUE]
              ELSE Only({[agent |-> IF ~fm THEN perceive(g, moved) ELSE moved,
                           ret |-> TRUE] :
                        moved \in {[a EXCEPT !.current = next_pos,
                                  !.metrics.steps = @ + 1,
                                  !.current_plan = Tail(@)]}}) :
            next_pos \in {a.current_plan[2]}})
  ELSE [agent |-> [a EXCEPT !.current_plan = <<>>], ret |-> TRUE]

\* follow_plan that moves to the end of the plan at once.
follow_plan_jump(g, fm, a) ==
  IF Len(a.current_plan) >= 2
  THEN Only({IF next_pos \in a.known_walls
              THEN [agent |-> [a EXCEPT !.metrics.replans = @ + 1,
                                        !.current_plan = <<>>],
                    ret |-> TRUE]
              ELSE Only({[agent |-> IF ~fm THEN perceive(g, moved) ELSE moved,
                           ret |-> TRUE] :
                        moved \in {[a EXCEPT !.current = next_pos,
                                  !.metrics.steps = @ + 1,
                                  !.metrics.path_taken = Append(@, next_pos),
                                  !.current_plan = <<next_pos>>]}}) :
            next_pos \in {a.current_plan[Len(a.current_plan)]}})
  ELSE [agent |-> [a EXCEPT !.current_plan = <<>>], ret |-> TRUE]

\* follow_plan that does not perceive again after the move.
follow_plan_no_perceive(g, fm, a) ==
  IF Len(a.current_plan) >= 2
  THEN Only({IF next_pos \in a.known_walls
              THEN [agent |-> [a EXCEPT !.metrics.replans = @ + 1,
                                        !.current_plan = <<>>],
                    ret |-> TRUE]
              ELSE [agent |-> [a EXCEPT !.current = next_pos,
                                        !.metrics.steps = @ + 1,
                                        !.metrics.path_taken = Append(@, next_pos),
                                        !.current_plan = Tail(@)],
                    ret |-> TRUE] :
            next_pos \in {a.current_plan[2]}})
  ELSE [agent |-> [a EXCEPT !.current_plan = <<>>], ret |-> TRUE]

\* follow_plan that leaves an exhausted plan in place.
follow_plan_keep_exhausted(g, fm, a) ==
  IF Len(a.current_plan) >= 2
  THEN Only({IF next_pos \in a.known_walls
              THEN [agent |-> [a EXCEPT !.metrics.replans = @ + 1,
                                        !.current_plan = <<>>],
                    ret |-> TRUE]
              ELSE Only({[agent |-> IF ~fm THEN perceive(g, moved) ELSE moved,
                           ret |-> TRUE] :
                        moved \in {[a EXCEPT !.current = next_pos,
                                  !.metrics.steps = @ + 1,
                                  !.metrics.path_taken = Append(@, next_pos),
                                  !.current_plan = Tail(@)]}}) :
            next_pos \in {a.current_plan[2]}})
  ELSE [agent |-> a, ret |-> TRUE]

\* "Follow plan one step".
follow_plan(g, fm, a) ==
  IF Len(a.current_plan) >= 2
  THEN Only({IF next_pos \in a.known_walls
              THEN [agent |-> [a EXCEPT !.metrics.replans = @ + 1,
                                        !.current_plan = <<>>],
                    ret |-> TRUE]
              ELSE Only({[agent |-> IF ~fm THEN perceive(g, moved) ELSE moved,
                           ret |-> TRUE] :
                        moved \in {[a EXCEPT !.current = next_pos,
                                  !.metrics.steps = @ + 1,
                                  !.metrics.path_taken = Append(@, next_pos),
                                  !.current_plan = Tail(@)]}}) :
            next_pos \in {a.current_plan[2]}})
  ELSE [agent |-> [a EXCEPT !.current_plan = <<>>], ret |-> TRUE]

\* Mutant: a step() that finds nothing to plan returns True.
step_perceived_stuck_continues(g, gl, fm, srch, a1) ==
  IF a1.current = gl
  THEN [agent |-> [a1 EXCEPT !.metrics.reached_goal = TRUE], ret |-> FALSE,
        searches |-> 0]
  ELSE Only({IF ~p.ok
              THEN [agent |-> p.agent, ret |-> TRUE, searches |-> p.searches]
              ELSE Only({[agent |-> f.agent, ret |-> f.ret,
                           searches |-> p.searches] :
                        f \in {follow_plan(g, fm, p.agent)}}) :
            p \in {ensure_plan(g, gl, fm, srch, a1)}})

\* Mutant: the goal check fires only while reached_goal is still False.
step_perceived_goal_once(g, gl, fm, srch, a1) ==
  IF a1.current = gl /\ ~a1.metrics.reached_goal
  THEN [agent |-> [a1 EXCEPT !.metrics.reached_goal = TRUE], ret |-> FALSE,
        searches |-> 0]
  ELSE Only({IF ~p.ok
              THEN [agent |-> p.agent, ret |-> FALSE, searches |-> p.searches]
              ELSE Only({[agent |-> f.agent, ret |-> f.ret,
                           searches |-> p.searches] :
                        f \in {follow_plan(g, fm, p.agent)}}) :
            p \in {ensure_plan(g, gl, fm, srch, a1)}})

\* Mutant: the goal check returns False without setting reached_goal.
step_perceived_no_mark(g, gl, fm, srch, a1) ==
  IF a1.current = gl
  THEN [agent |-> a1, ret |-> FALSE, searches |-> 0]
  ELSE Only({IF ~p.ok
              THEN [agent |-> p.agent, ret |-> FALSE, searches |-> p.searches]
              ELSE Only({[agent |-> f.agent, ret |-> f.ret,
                           searches |-> p.searches] :
                        f \in {follow_plan(g, fm, p.agent)}}) :
            p \in {ensure_plan(g, gl, fm, srch, a1)}})

\* step() after its perception: the goal check, planning, acting.
step_perceived(g, gl, fm, srch, a1) ==
  IF a1.current = gl
  THEN [agent |-> [a1 EXCEPT !.metrics.reached_goal = TRUE], ret |-> FALSE,
        searches |-> 0]
  ELSE Only({IF ~p.ok
              THEN [agent |-> p.agent, ret |-> FALSE, searches |-> p.searches]
              ELSE Only({[agent |-> f.agent, ret |-> f.ret,
                           searches |-> p.searches] :
                        f \in {follow_plan(g, fm, p.agent)}}) :
            p \in {ensure_plan(g, gl, fm, srch, a1)}})

\* Mutant: step() perceives in full-map mode too.
step_always_perceive(g, gl, fm, srch, a) ==
  Only({step_perceived(g, gl, fm, srch, a1) : a1 \in {perceive(g, a)}})

\* step(): the agent after the call, the returned flag and the number of
\* calls of self.search made.
step(g, gl, fm, srch, a) ==
  Only({step_perceived(g, gl, fm, srch, a1) :
       a1 \in {IF ~fm THEN perceive(g, a) ELSE a}})

\* Mutant: reached_goal is left as step() set it.
finalize_keep_reached(gl, a) ==
  IF a.metrics.path_taken # <<>>
  THEN [a.metrics EXCEPT !.cost = IF Len(a.metrics.path_taken) - 1 > 0
                                  THEN Len(a.metrics.path_taken) - 1 ELSE 0]
  ELSE a.metrics

\* Mutant: cost is the number of visited coordinates, not of moves.
finalize_len_cost(gl, a) ==
  [a.metrics EXCEPT !.reached_goal = (a.current = gl),
                    !.cost = Len(a.metrics.path_taken)]

\* The end of run(): reached_goal and cost are recomputed.
finalize(gl, a) ==
  LET m1 == [a.metrics EXCEPT !.reached_goal = (a.current = gl)]
  IN IF m1.path_taken # <<>>
     THEN [m1 EXCEPT !.cost = IF Len(m1.path_taken) - 1 > 0
                              THEN Len(m1.path_taken) - 1 ELSE 0]
     ELSE m1

\* ------------------------------------------------------------------ state
VARIABLES
  grid, start, goal, visible,          \* Grid: tiles, S and G, visibility mask
  full_map, search, current,           \* OnlineAgent
  known_passable, known_walls, current_plan, metrics,
  cont,                                \* what the last step() returned
  searches,                            \* self.search calls of the last step()
  run_pc, run_steps, max_steps,        \* a run(max_steps) call in progress
  run_calls,                           \* step() calls made by that run
  stalled,                             \* consecutive step() calls without a move
  ext, last_reveal,                    \* reveal_from calls of other clients
  other, other_current,                \* a second OnlineAgent on the Grid
  calls,                               \* step() calls of each, modulo 2
  q_fn, q_pos, q_ret, q_raised,        \* a client's call of a Grid helper
  csv_rows, load_pc, loaded,           \* a client's Grid.from_csv call
  c_arg, c_raised,                     \* and its OnlineAgent(...) call
  s_kind, nfn, s_start, s_goal, s_algo,  \* a client's call of a search
  s_pc, s_plain, s_stats               \* its plain and with-stats results

grid_vars == <<grid, start, goal, visible>>
agent_vars == <<full_map, search, current, known_passable, known_walls,
                current_plan, metrics, cont, searches, stalled>>
run_vars == <<run_pc, run_steps, max_steps, run_calls>>
search_vars == <<s_kind, nfn, s_start, s_goal, s_algo, s_pc, s_plain, s_stats>>
other_vars == <<other, other_current, calls>>
ext_vars == <<ext, last_reveal, other_vars>>
query_vars == <<q_fn, q_pos, q_ret, q_raised>>
load_vars == <<csv_rows, load_pc, loaded, c_arg, c_raised>>
vars == <<grid_vars, agent_vars, run_vars, ext_vars, query_vars, search_vars, load_vars>>

\* -------------------------------------------- clients of the search API
\* The four moves, and every order in which a neighbor function may list them.
Moves == << <<-1, 0>>, <<0, 1>>, <<1, 0>>, <<0, -1>> >>

Orders == {o \in [1 .. 4 -> 1 .. 4] : \A i, j \in 1 .. 4 : o[i] = o[j] => i = j}

WallSets == {w \in SUBSET Cells : Cardinality(w) <= MaxWalls}

\* A 4-connected unit-cost grid's neighbor function: the in-bounds non-wall
\* cells next to rc, listed in the given order of the moves.
grid_neighbors(walls, order) ==
  [rc \in Cells |->
     FilterSeq([i \in 1 .. 4 |-> <<rc[1] + Moves[order[i]][1],
                                   rc[2] + Moves[order[i]][2]>>],
               Cells \ walls)]

\* Any neighbor function over a small node set: directed, with self-loops
\* and repeated entries allowed.
GraphNodes == {p \in (0 .. 1) \X (0 .. 1) : 2 * p[1] + p[2] < MaxNodes}

NeighborLists == UNION {[1 .. k -> GraphNodes] : k \in 0 .. MaxDeg}

NoQuery == q_fn = None /\ q_pos = <<>> /\ q_ret = None /\ q_raised = None

NoLoad ==
  /\ csv_rows = <<>> /\ load_pc = "idle" /\ loaded = None
  /\ c_arg = None /\ c_raised = None

\* No second agent has been constructed on the Grid.
NoOther == other = None /\ other_current = None /\ calls = <<0, 0>>

NoAgent ==
  /\ NoQuery
  /\ grid = None /\ start = None /\ goal = None /\ visible = None
  /\ full_map = None /\ search = None /\ current = None
  /\ known_passable = None /\ known_walls = None /\ current_plan = None
  /\ metrics = None /\ cont = None /\ searches = 0
  /\ stalled = 0
  /\ run_pc = "idle" /\ run_steps = 0 /\ max_steps = 0 /\ run_calls = 0
  /\ ext = 0 /\ last_reveal = [pos |-> <<>>, ret |-> <<>>]
  /\ NoOther

InitSearch ==
  /\ NoAgent /\ NoLoad
  /\ s_algo \in AlgoNames
  /\ s_pc = "call" /\ s_plain = None /\ s_stats = None
  /\ \/ /\ s_kind = "grid"
        /\ \E walls \in WallSets, order \in Orders :
             /\ nfn = grid_neighbors(walls, order)
             /\ s_start \in Cells \ walls
             /\ s_goal \in Cells \ walls
     \/ /\ s_kind = "graph"
        /\ nfn \in [GraphNodes -> NeighborLists]
        /\ s_start \in GraphNodes
        /\ s_goal \in GraphNodes

\* A client calls ALGORITHMS_NEIGHBORS[s_algo](s_start, s_goal, nfn).
SearchPlain ==
  /\ s_pc = "call"
  /\ s_plain' = plain_search(s_algo, s_start, s_goal, nfn)
  /\ s_pc' = "plain"
  /\ UNCHANGED <<grid_vars, agent_vars, run_vars, ext_vars, query_vars,
                 load_vars, s_kind, nfn, s_start, s_goal, s_algo, s_stats>>

\* A client calls ALGORITHMS_NEIGHBORS_WITH_STATS[s_algo](s_start, s_goal, nfn).
SearchWithStats ==
  /\ s_pc = "plain"
  /\ s_stats' = with_stats(s_algo, s_start, s_goal, nfn)
  /\ s_pc' = "stats"
  /\ UNCHANGED <<grid_vars, agent_vars, run_vars, ext_vars, query_vars,
                 load_vars, s_kind, nfn, s_start, s_goal, s_algo, s_plain>>

NextSearch == SearchPlain \/ SearchWithStats

SpecSearch == InitSearch /\ [][NextSearch]_vars

\* ------------------------------------------------- the agent on its grid
\* A client stops calling step() after MaxStalled consecutive calls that did
\* not move the agent.
MaxStalled == 3
\* run(max_steps) is called with a budget of 0 .. MaxBudget, or with the
\* benchmark's budget.
MaxBudget == 2

BenchBudget == Width * Height * 4

Budgets == (0 .. MaxBudget) \cup {BenchBudget}

\* A grid as Grid.from_csv accepts it: one S, one G, the rest free or wall.
LoadedGrid(s, gl, walls) ==
  [p \in Cells |-> IF p = s THEN "S"
                   ELSE IF p = gl THEN "G"
                   ELSE IF p \in walls THEN "1" ELSE "0"]

NoSearchCall ==
  /\ s_kind = None /\ nfn = None /\ s_start = None /\ s_goal = None
  /\ s_algo = None /\ s_pc = "idle" /\ s_plain = None /\ s_stats = None

\* The agent object and the mask of its grid, as one record.
Agent ==
  [current |-> current, visible |-> visible,
   known_passable |-> known_passable, known_walls |-> known_walls,
   current_plan |-> current_plan, metrics |-> metrics]

SetAgent(a) ==
  /\ current' = a.current
  /\ visible' = a.visible
  /\ known_passable' = a.known_passable
  /\ known_walls' = a.known_walls
  /\ current_plan' = a.current_plan
  /\ metrics' = a.metrics

Flag(ret) == IF ret THEN "continue" ELSE "done"

\* A freshly loaded grid (mask all False) and an agent constructed on it.
Init ==
  /\ NoSearchCall /\ NoQuery /\ NoLoad
  /\ \E s \in Cells, gl \in Cells :
       /\ s # gl
       /\ \E walls \in SUBSET (Cells \ {s, gl}) :
            /\ Cardinality(walls) <= MaxWalls
            /\ grid = LoadedGrid(s, gl, walls)
            /\ start = s
            /\ goal = gl
  /\ full_map \in BOOLEAN
  /\ search \in [algo : AlgoNames, stats : BOOLEAN]
  /\ \E a \in {OnlineAgent(grid, start, {}, full_map)} :
       /\ current = a.current
       /\ visible = a.visible
       /\ known_passable = a.known_passable
       /\ known_walls = a.known_walls
       /\ current_plan = a.current_plan
       /\ metrics = a.metrics
  /\ cont = "none" /\ searches = 0 /\ stalled = 0
  /\ run_pc = "idle" /\ run_steps = 0 /\ max_steps = 0 /\ run_calls = 0
  /\ ext = 0 /\ last_reveal = [pos |-> <<>>, ret |-> <<>>]
  /\ NoOther

\* A client (a visualizer, a test) calls agent.step().
Step ==
  /\ run_pc = "idle"
  /\ stalled < MaxStalled
  /\ \E r \in {step(grid, goal, full_map, search, Agent)} :
       /\ SetAgent(r.agent)
       /\ cont' = Flag(r.ret)
       /\ searches' = r.searches
       /\ stalled' = IF r.agent.current # current THEN 0 ELSE stalled + 1
  /\ UNCHANGED <<grid, start, goal, full_map, search, run_vars, ext_vars,
                 query_vars, search_vars, load_vars>>

\* A client calls agent.run(max_steps) on the agent it has constructed.
RunStart ==
  /\ run_pc = "idle" /\ cont = "none"
  /\ \E m \in Budgets : max_steps' = m
  /\ run_pc' = "loop"
  /\ run_steps' = 0
  /\ run_calls' = 0
  /\ UNCHANGED <<grid_vars, agent_vars, ext_vars, query_vars, search_vars, load_vars>>

\* Mutant: the loop body runs before the budget is tested.
RunStepUnchecked ==
  /\ run_pc = "loop"
  /\ run_calls' = run_calls + 1
  /\ \E r \in {step(grid, goal, full_map, search, Agent)} :
       /\ SetAgent(r.agent)
       /\ cont' = Flag(r.ret)
       /\ searches' = r.searches
       /\ IF r.ret
          THEN run_pc' = "loop" /\ run_steps' = run_steps + 1
          ELSE run_pc' = "break" /\ run_steps' = run_steps
  /\ UNCHANGED <<grid, start, goal, full_map, search, stalled, max_steps,
                 ext_vars, query_vars, search_vars, load_vars>>

\* One iteration of run()'s while loop: step(), then break or count.
RunStep ==
  /\ run_pc = "loop"
  /\ run_steps < max_steps
  /\ run_calls' = run_calls + 1
  /\ \E r \in {step(grid, goal, full_map, search, Agent)} :
       /\ SetAgent(r.agent)
       /\ cont' = Flag(r.ret)
       /\ searches' = r.searches
       /\ IF r.ret
          THEN run_pc' = "loop" /\ run_steps' = run_steps + 1
          ELSE run_pc' = "break" /\ run_steps' = run_steps
  /\ UNCHANGED <<grid, start, goal, full_map, search, stalled, max_steps,
                 ext_vars, query_vars, search_vars, load_vars>>

\* run() leaves the loop (budget spent, or break) and finalizes the metrics.
RunReturn ==
  /\ \/ run_pc = "loop" /\ ~(run_steps < max_steps)
     \/ run_pc = "break"
  /\ metrics' = finalize(goal, Agent)
  /\ run_pc' = "returned"
  /\ UNCHANGED <<grid_vars, full_map, search, current, known_passable,
                 known_walls, current_plan, cont, searches, stalled, run_steps,
                 max_steps, run_calls, ext_vars, query_vars, search_vars, load_vars>>

Next == Step \/ RunStart \/ RunStep \/ RunReturn

Spec == Init /\ [][Next]_vars

\* A client that calls step() again and again (until MaxStalled calls in a
\* row have not moved the agent).
NextSteps == Step

\* A step() call as its caller sees it: it is possible whenever the client
\* has not given up, it returns a flag, and it moves the agent or adds to the
\* count of calls that did not.
StepCalled ==
  /\ run_pc = "idle"
  /\ stalled < MaxStalled
  /\ cont' \in {"continue", "done"}
  /\ current' \in Cells
  /\ stalled' = IF current' # current THEN 0 ELSE stalled + 1

\* The client does not stop calling step() before it has given up.
SpecSteps ==
  Init /\ [][NextSteps]_vars /\ WF_<<current, stalled>>(StepCalled)

\* ----------------------------------------- two agents sharing one Grid
\* The second agent as the record the agent operators work on; the mask is
\* the shared Grid's.
OtherAgent ==
  [current |-> other_current, visible |-> visible,
   known_passable |-> other.known_passable, known_walls |-> other.known_walls,
   current_plan |-> other.current_plan, metrics |-> other.metrics]

\* The second agent's own fields after a call that left it as b and returned
\* flag (the last return of its step(); "none" before the first call).
OtherFields(b, flag) ==
  [known_passable |-> b.known_passable, known_walls |-> b.known_walls,
   current_plan |-> b.current_plan, metrics |-> b.metrics, cont |-> flag]

\* A grid is loaded and two fog agents are constructed on the one Grid
\* object, one after the other, with the same search_algo (one that returns
\* the bare path).
InitShared ==
  /\ NoSearchCall /\ NoQuery /\ NoLoad
  /\ \E s \in Cells, gl \in Cells :
       /\ s # gl
       /\ \E walls \in SUBSET (Cells \ {s, gl}) :
            /\ Cardinality(walls) <= MaxWalls
            /\ grid = LoadedGrid(s, gl, walls)
            /\ start = s
            /\ goal = gl
  /\ full_map = FALSE
  /\ search \in [algo : AlgoNames, stats : {FALSE}]
  /\ \E a \in {OnlineAgent(grid, start, {}, FALSE)} :
       \E b \in {OnlineAgent(grid, start, a.visible, FALSE)} :
         /\ current = a.current
         /\ known_passable = a.known_passable
         /\ known_walls = a.known_walls
         /\ current_plan = a.current_plan
         /\ metrics = a.metrics
         /\ visible = b.visible
         /\ other = OtherFields(b, "none")
         /\ other_current = b.current
  /\ calls = <<0, 0>>
  /\ cont = "none" /\ searches = 0 /\ stalled = 0
  /\ run_pc = "idle" /\ run_steps = 0 /\ max_steps = 0 /\ run_calls = 0
  /\ ext = 0 /\ last_reveal = [pos |-> <<>>, ret |-> <<>>]

\* The first agent's client calls its step(), however often the agent has
\* not moved; the call runs to its return before any other call on the Grid
\* starts.
SharedStep ==
  /\ \E r \in {step(grid, goal, FALSE, search, Agent)} :
       /\ SetAgent(r.agent)
       /\ cont' = Flag(r.ret)
       /\ searches' = r.searches
  /\ calls' = [calls EXCEPT ![1] = 1 - @]
  /\ UNCHANGED <<grid, start, goal, full_map, search, stalled, run_vars, ext,
                 last_reveal, other, other_current, query_vars, search_vars,
                 load_vars>>

\* The second agent's client calls its step(), in the same way.
OtherStep ==
  /\ \E r \in {step(grid, goal, FALSE, search, OtherAgent)} :
       /\ visible' = r.agent.visible
       /\ other' = OtherFields(r.agent, Flag(r.ret))
       /\ other_current' = r.agent.current
  /\ calls' = [calls EXCEPT ![2] = 1 - @]
  /\ UNCHANGED <<grid, start, goal, agent_vars, run_vars, ext, last_reveal,
                 query_vars, search_vars, load_vars>>

NextShared == SharedStep \/ OtherStep

\* A step() call of agent i as the scheduler sees it: one more call made.
StepCalledBy(i) == calls' = [calls EXCEPT ![i] = 1 - @]

\* Both clients call step() for ever and neither is starved by the other.
SpecShared ==
  InitShared /\ [][NextShared]_vars
    /\ WF_calls(StepCalledBy(1)) /\ WF_calls(StepCalledBy(2))

\* ------------------------------------------- other clients of the Grid
\* Other clients make at most MaxExt calls of reveal_from.
MaxExt == 2

\* Another client of the shared Grid object calls grid.reveal_from(pos).
RevealFrom ==
  /\ run_pc = "idle"
  /\ ext < MaxExt
  /\ \E pos \in Cells :
       \E r \in {reveal_from(visible, pos)} :
         /\ visible' = r.visible
         /\ last_reveal' = [pos |-> pos, ret |-> r.revealed]
  /\ ext' = ext + 1
  /\ UNCHANGED <<grid, start, goal, agent_vars, run_vars, other_vars,
                 query_vars, search_vars, load_vars>>

\* The agent of the open system is constructed without a search_algo
\* argument: it uses the default, the plain astar.
InitOpen == Init /\ search = [algo |-> "astar", stats |-> FALSE]

NextOpen == Step \/ RevealFrom

SpecOpen == InitOpen /\ [][NextOpen]_vars

\* ------------------------------- other clients of the agent's belief sets
\* Another client adds a coordinate the plan still has ahead of the agent to
\* agent.known_walls.
MarkPlanCellWall ==
  /\ run_pc = "idle"
  /\ ext < MaxExt
  /\ \E i \in 2 .. Len(current_plan) :
       known_walls' = known_walls \cup {current_plan[i]}
  /\ ext' = ext + 1
  /\ UNCHANGED <<grid_vars, full_map, search, current, known_passable,
                 current_plan, metrics, cont, searches, stalled, run_vars,
                 last_reveal, other_vars,
                 query_vars, search_vars, load_vars>>

NextMark == Step \/ MarkPlanCellWall

SpecMark == Init /\ [][NextMark]_vars

\* ------------------------------- clients of the agent's choose_frontier
\* A client (a test, a visualizer) calls agent.choose_frontier() between
\* step() calls; the method assigns to locals only.
CallChooseFrontier ==
  /\ q_fn = None
  /\ q_pos' = current
  /\ q_ret' = choose_frontier(Agent)
  /\ q_fn' = "choose_frontier" /\ q_raised' = None
  /\ UNCHANGED <<grid_vars, agent_vars, run_vars, ext_vars, search_vars,
                 load_vars>>

StepBeforeCall == q_fn = None /\ Step

MarkBeforeCall == q_fn = None /\ MarkPlanCellWall

NextFrontier == StepBeforeCall \/ MarkBeforeCall \/ CallChooseFrontier

SpecFrontier == Init /\ [][NextFrontier]_vars

\* ------------------------------------- clients of the Grid's helper API
\* The coordinates a client passes: the cells and the ring just outside.
QueryPositions == ((-1) .. Height) \X ((-1) .. Width)

\* A freshly loaded grid (mask all False); no agent has been constructed.
InitGrid ==
  /\ NoSearchCall /\ NoQuery /\ NoLoad
  /\ \E s \in Cells, gl \in Cells :
       /\ s # gl
       /\ \E walls \in SUBSET (Cells \ {s, gl}) :
            /\ Cardinality(walls) <= MaxWalls
            /\ grid = LoadedGrid(s, gl, walls)
            /\ start = s
            /\ goal = gl
  /\ visible = {}
  /\ full_map = None /\ search = None /\ current = None
  /\ known_passable = None /\ known_walls = None /\ current_plan = None
  /\ metrics = None /\ cont = None /\ searches = 0 /\ stalled = 0
  /\ run_pc = "idle" /\ run_steps = 0 /\ max_steps = 0 /\ run_calls = 0
  /\ ext = 0 /\ last_reveal = [pos |-> <<>>, ret |-> <<>>]
  /\ NoOther

\* A client calls grid.neighbors4(r, c).
CallNeighbors4 ==
  /\ q_fn = None
  /\ \E pos \in QueryPositions :
       /\ q_pos' = pos
       /\ q_ret' = neighbors4(pos[1], pos[2])
  /\ q_fn' = "neighbors4" /\ q_raised' = None
  /\ UNCHANGED <<grid_vars, agent_vars, run_vars, ext_vars, search_vars, load_vars>>

\* A client calls grid.passable(r, c).
CallPassable ==
  /\ q_fn = None
  /\ \E pos \in QueryPositions :
       /\ q_pos' = pos
       /\ q_ret' = passable(grid, pos[1], pos[2])
  /\ q_fn' = "passable" /\ q_raised' = None
  /\ UNCHANGED <<grid_vars, agent_vars, run_vars, ext_vars, search_vars, load_vars>>

\* A client calls grid.is_wall(r, c).
CallIsWall ==
  /\ q_fn = None
  /\ \E pos \in QueryPositions :
       /\ q_pos' = pos
       /\ q_ret' = is_wall(grid, pos[1], pos[2])
  /\ q_fn' = "is_wall" /\ q_raised' = None
  /\ UNCHANGED <<grid_vars, agent_vars, run_vars, ext_vars, search_vars, load_vars>>

\* A client calls grid.get_visible_neighbors(pos).
CallGetVisibleNeighbors ==
  /\ q_fn = None
  /\ \E pos \in QueryPositions :
       /\ q_pos' = pos
       /\ q_ret' = get_visible_neighbors(grid, visible, pos)
  /\ q_fn' = "get_visible_neighbors" /\ q_raised' = None
  /\ UNCHANGED <<grid_vars, agent_vars, run_vars, ext_vars, search_vars, load_vars>>

\* A client calls grid.in_bounds(r, c).
CallInBounds ==
  /\ q_fn = None
  /\ \E pos \in QueryPositions :
       /\ q_pos' = pos
       /\ q_ret' = in_bounds(pos[1], pos[2])
  /\ q_fn' = "in_bounds" /\ q_raised' = None
  /\ UNCHANGED <<grid_vars, agent_vars, run_vars, ext_vars, search_vars, load_vars>>

\* A client calls grid.tile_at(r, c).
CallTileAt ==
  /\ q_fn = None
  /\ \E pos \in QueryPositions :
       /\ q_pos' = pos
       /\ q_ret' = tile_at(grid, pos[1], pos[2])
  /\ q_fn' = "tile_at" /\ q_raised' = None
  /\ UNCHANGED <<grid_vars, agent_vars, run_vars, ext_vars, search_vars, load_vars>>

\* A client calls grid.is_visible(r, c).
CallIsVisible ==
  /\ q_fn = None
  /\ \E pos \in QueryPositions :
       /\ q_pos' = pos
       /\ q_ret' = is_visible(visible, pos[1], pos[2])
  /\ q_fn' = "is_visible" /\ q_raised' = None
  /\ UNCHANGED <<grid_vars, agent_vars, run_vars, ext_vars, search_vars, load_vars>>

\* A client calls grid.visible_tiles().
CallVisibleTiles ==
  /\ q_fn = None
  /\ q_pos' = <<>>
  /\ q_ret' = visible_tiles(visible)
  /\ q_fn' = "visible_tiles" /\ q_raised' = None
  /\ UNCHANGED <<grid_vars, agent_vars, run_vars, ext_vars, search_vars, load_vars>>

\* A client calls grid.reveal_from(pos) with any integer coordinates.
CallRevealFrom ==
  /\ q_fn = None
  /\ \E pos \in QueryPositions :
       \E r \in {reveal_from(visible, pos)} :
         /\ q_pos' = pos
         /\ visible' = r.visible
         /\ q_ret' = r.revealed
         /\ q_raised' = r.raised
  /\ q_fn' = "reveal_from"
  /\ UNCHANGED <<grid, start, goal, agent_vars, run_vars, ext_vars,
                 search_vars, load_vars>>

\* The client reveals around some cells, then makes its call.
RevealBeforeCall == q_fn = None /\ RevealFrom

NextGrid ==
  \/ RevealBeforeCall
  \/ CallNeighbors4
  \/ CallPassable
  \/ CallIsWall
  \/ CallGetVisibleNeighbors
  \/ CallInBounds
  \/ CallTileAt
  \/ CallIsVisible
  \/ CallVisibleTiles
  \/ CallRevealFrom

SpecGrid == InitGrid /\ [][NextGrid]_vars

\* ------------------------------------ clients that load and construct
\* A map file has at most MaxRows rows of at most MaxCols symbols; "x" stands
\* for every symbol that is not one of 0, 1, S, G.
MaxRows == 2
MaxCols == 3

CsvSymbols == {"0", "1", "S", "G", "x"}

CsvLines == UNION {[1 .. w -> CsvSymbols] : w \in 0 .. MaxCols}

CsvFiles == UNION {[1 .. h -> CsvLines] : h \in 0 .. MaxRows}

\* What a caller may pass as OnlineAgent's grid argument.
GridArguments == {"Grid", "Path", "str", "None"}

InitLoad ==
  /\ NoAgent /\ NoSearchCall
  /\ csv_rows \in CsvFiles
  /\ load_pc = "call" /\ loaded = None
  /\ c_arg = None /\ c_raised = None

\* A client calls Grid.from_csv on the file.
LoadCsv ==
  /\ load_pc = "call"
  /\ loaded' = from_csv(csv_rows)
  /\ load_pc' = "loaded"
  /\ UNCHANGED <<grid_vars, agent_vars, run_vars, ext_vars, query_vars,
                 search_vars, csv_rows, c_arg, c_raised>>

\* OnlineAgent.__init__ up to its first use of the grid argument: a Path is
\* refused with a TypeError; anything else is read for its start attribute,
\* which a str or None does not have.
TypeError == "TypeError"
AttributeError == "AttributeError"

init_raises(arg) ==
  IF arg = "Path" THEN TypeError
  ELSE IF arg \in {"str", "None"} THEN AttributeError
  ELSE None

\* The client constructs OnlineAgent(arg, full_map): with the Grid it has
\* loaded, or with the path, the path string or None.
Construct ==
  /\ load_pc = "loaded"
  /\ \E arg \in GridArguments, fm \in BOOLEAN :
       /\ arg = "Grid" => loaded.raised = None
       /\ c_arg' = [grid |-> arg, full_map |-> fm]
       /\ c_raised' = init_raises(arg)
  /\ load_pc' = "constructed"
  /\ UNCHANGED <<grid_vars, agent_vars, run_vars, ext_vars, query_vars,
                 search_vars, csv_rows, loaded>>

NextLoad == LoadCsv \/ Construct

SpecLoad == InitLoad /\ [][NextLoad]_vars

\* ------------------------------------------- graph facts used by the claims
ListedBy(fn, p) == {fn[p][i] : i \in 1 .. Len(fn[p])}

\* The nodes reachable from the set S by following fn.
RECURSIVE ReachFrom(_, _)
ReachFrom(fn, S) ==
  LET T == S \cup UNION {ListedBy(fn, p) : p \in S}
  IN IF T = S THEN S ELSE ReachFrom(fn, T)

Reachable(fn, a, b) == b \in ReachFrom(fn, {a})

\* The least number of edges from the layer S (at distance d) to b; -1 if none.
RECURSIVE DistFrom(_, _, _, _)
DistFrom(fn, S, b, d) ==
  IF b \in S THEN d
  ELSE LET T == S \cup UNION {ListedBy(fn, p) : p \in S}
       IN IF T = S THEN -1 ELSE DistFrom(fn, T, b, d + 1)

Dist(fn, a, b) == DistFrom(fn, {a}, b, 0)

NoRepeats(xs) == \A i, j \in 1 .. Len(xs) : xs[i] = xs[j] => i = j

\* ------------------------------------------------------------- the claims

\* C1: over every sequence of reveal_from calls (the agent's own and other
\* clients') and step() calls, a cell that is visible stays visible: the set
\* visible_tiles() never shrinks.
C1_MonotonicVisibility ==
  [][visible_tiles(visible) \subseteq visible_tiles(visible')]_vars

C1_Witness ==
  /\ ext = 2 /\ ~full_map /\ metrics.steps >= 2
  /\ Cardinality(visible_tiles(visible)) = Cardinality(Cells)
  /\ last_reveal.ret # <<>>

\* The cells reveal_from(pos) is to make visible: pos and its in-bounds
\* 4-neighbours.
RadiusOne(pos) == {q \in Cells : manhattan(pos, q) <= 1}

SeqSet(xs) == {xs[i] : i \in 1 .. Len(xs)}

\* C2: reveal_from(pos) makes pos and its in-bounds 4-neighbours visible
\* (walls too), changes no other flag and no tile, and returns exactly the
\* coordinates it flipped (at most five, in bounds, no duplicates); called
\* again with the same pos it returns [] and changes nothing.
C2_RevealFromEffect ==
  [][ext' = ext + 1 =>
       LET pos == last_reveal'.pos
           ret == last_reveal'.ret
       IN /\ visible' = visible \cup RadiusOne(pos)
          /\ grid' = grid
          /\ SeqSet(ret) = visible' \ visible
          /\ SeqSet(ret) \subseteq Cells
          /\ NoRepeats(ret) /\ Len(ret) <= 5
          /\ (ext >= 1 /\ last_reveal.pos = pos) =>
               (ret = <<>> /\ visible' = visible)]_vars

\* A second call with the same pos, after a first that revealed a wall.
C2_Witness ==
  /\ ext = 2 /\ last_reveal.ret = <<>>
  /\ full_map
  /\ \E q \in RadiusOne(last_reveal.pos) : grid[q] = "1"
  /\ visible = RadiusOne(last_reveal.pos)

\* The offline view of the loaded grid: its passable cells, 4-connected.
FreeCells == {p \in Cells : grid[p] # "1"}

\* S holds the free cells within d moves of the start cell: the least d at
\* which cell b is among them, -1 if it never is.
RECURSIVE Flood(_, _, _, _)
Flood(S, free, b, d) ==
  IF b \in S THEN d
  ELSE LET T == S \cup {q \in free : \E p \in S : manhattan(p, q) = 1}
       IN IF T = S THEN -1 ELSE Flood(T, free, b, d + 1)

ShortestLen == Flood({start}, FreeCells, goal, 0)

GoalReachable == ShortestLen >= 0

\* Every in-bounds 4-neighbour of the start is a wall.
StartBoxed == \A q \in RadiusOne(start) \ {start} : grid[q] = "1"

\* C3: under fog, when the goal is reachable from the start, step() never ends
\* Stuck (a done return happens on the goal only), and run() with the
\* benchmark's budget returns reached_goal = true with cost at least the
\* offline shortest-path length.
C3_FogReachesGoal ==
  (~full_map /\ GoalReachable) =>
    /\ cont = "done" => current = goal
    /\ (run_pc = "returned" /\ max_steps = BenchBudget) =>
         (metrics.reached_goal /\ metrics.cost >= ShortestLen)

\* A fog run that reached the goal after exploring a dead end.
C3_Witness ==
  /\ ~full_map /\ GoalReachable
  /\ run_pc = "returned" /\ max_steps = BenchBudget
  /\ metrics.reached_goal /\ metrics.cost > ShortestLen

\* C4: when the goal is not reachable from the start, the agent is never on
\* the goal, and a run returns reached_goal = false, in both modes and for
\* every search; with the benchmark's budget the run ends by a done step.
C4_UnreachableNotReached ==
  ~GoalReachable =>
    /\ current # goal /\ ~metrics.reached_goal
    /\ (run_pc = "returned" /\ max_steps = BenchBudget) => cont = "done"

C4_Witness ==
  /\ ~GoalReachable /\ ~full_map /\ search.algo = "greedy"
  /\ run_pc = "returned" /\ max_steps = BenchBudget
  /\ metrics.steps >= 2

\* C5 as stated: with the goal walled off a run ends with steps = 0 and
\* cost = 0 in both modes.
C5_NeverMoves ==
  (~GoalReachable /\ run_pc = "returned") =>
    (metrics.steps = 0 /\ metrics.cost = 0)

\* C5 as amended: with the goal walled off a run ends with cost = steps; the
\* agent never moves (steps = 0, cost = 0) in full-knowledge mode, and under
\* fog when every in-bounds 4-neighbour of the start is a wall.
C5_NeverMovesAmended ==
  (~GoalReachable /\ run_pc = "returned") =>
    /\ metrics.cost = metrics.steps
    /\ (full_map \/ StartBoxed) => (metrics.steps = 0 /\ metrics.cost = 0)

\* A full-knowledge run with a with-stats search on an open start: planning
\* expanded nodes, nothing moved.
C5_Witness ==
  /\ ~GoalReachable /\ run_pc = "returned" /\ max_steps = BenchBudget
  /\ full_map /\ ~StartBoxed /\ search.stats
  /\ metrics.nodes_expanded >= 2
  /\ metrics.steps = 0 /\ metrics.cost = 0

\* C6: each of the five searches returns the empty path exactly when the goal
\* is not reachable from start by following the neighbor function (and the
\* call completes in the unreachable case).
C6_EmptyIffUnreachable ==
  s_pc # "call" =>
    (s_plain.path = <<>> <=> ~Reachable(nfn, s_start, s_goal))

C6_Witness ==
  /\ s_pc = "plain" /\ s_kind = "graph" /\ s_algo = "astar"
  /\ ~Reachable(nfn, s_start, s_goal)
  /\ s_plain.path = <<>> /\ s_plain.calls >= 2

\* C7: a non-empty returned path starts with start, ends with goal, follows
\* the neighbor function from each element to the next, and repeats no node.
C7_PathWellFormed ==
  (s_pc # "call" /\ s_plain.path # <<>>) =>
    LET path == s_plain.path IN
    /\ path[1] = s_start
    /\ path[Len(path)] = s_goal
    /\ \A i \in 2 .. Len(path) : path[i] \in ListedBy(nfn, path[i - 1])
    /\ NoRepeats(path)

C7_Witness ==
  /\ s_pc = "plain" /\ s_kind = "graph" /\ s_algo = "dfs"
  /\ Len(s_plain.path) = 3
  /\ s_start \in ListedBy(nfn, s_goal)

\* C8: on a 4-connected unit-cost grid (any walls, any order of the moves)
\* with the goal reachable, bfs, ucs and astar return a path with the least
\* number of edges.
C8_OptimalOnGrid ==
  (/\ s_pc # "call" /\ s_kind = "grid"
   /\ s_algo \in {"bfs", "ucs", "astar"}
   /\ Reachable(nfn, s_start, s_goal)) =>
    Len(s_plain.path) - 1 = Dist(nfn, s_start, s_goal)

\* astar returns the four-move route around a wall between start and goal.
C8_Witness ==
  /\ s_pc = "plain" /\ s_kind = "grid" /\ s_algo = "astar"
  /\ Len(s_plain.path) - 1 = 4
  /\ manhattan(s_start, s_goal) = 2

\* C9: with start = goal every search returns exactly [start] (cost 0) and
\* never calls the neighbor function.
C9_TrivialCase ==
  (s_pc # "call" /\ s_start = s_goal) =>
    /\ s_plain.path = <<s_start>>
    /\ s_plain.calls = 0
    /\ s_pc = "stats" => (s_stats.path = <<s_start>> /\ s_stats.cost = 0)

C9_Witness ==
  /\ s_pc = "stats" /\ s_start = s_goal /\ s_kind = "graph"
  /\ nfn[s_start] # <<>>
  /\ s_stats.path = <<s_start>>

\* C10: the with-stats variant returns the plain variant's path, cost =
\* len(path) - 1 (0 for an empty path), and nodes_expanded = the number of
\* neighbor-function calls of the plain search.
C10_StatsFidelity ==
  s_pc = "stats" =>
    /\ s_stats.path = s_plain.path
    /\ s_stats.cost = (IF s_plain.path = <<>> THEN 0 ELSE Len(s_plain.path) - 1)
    /\ s_stats.nodes_expanded = s_plain.calls

C10_Witness ==
  /\ s_pc = "stats" /\ s_algo = "greedy"
  /\ Len(s_stats.path) >= 3 /\ s_stats.nodes_expanded >= 2
  /\ s_stats.cost = 2

\* C11: when the agent holds a plan of at least two coordinates whose next
\* coordinate has been added to known_walls, the next step() adds exactly one
\* to replans, leaves current, steps and path_taken as they were, empties the
\* plan and returns continue.
C11_ReplanOnKnownWall ==
  [][(/\ ext' = ext
      /\ Len(current_plan) >= 2
      /\ current_plan[2] \in known_walls) =>
       /\ metrics'.replans = metrics.replans + 1
       /\ current' = current
       /\ metrics'.steps = metrics.steps
       /\ metrics'.path_taken = metrics.path_taken
       /\ current_plan' = <<>>
       /\ cont' = "continue"]_vars

\* The agent had moved twice along its plan when the wall was marked, and
\* the step after that only replanned.
C11_Witness ==
  /\ ext = 1 /\ metrics.replans = 1 /\ metrics.steps = 2
  /\ current_plan = <<>> /\ cont = "continue"
  /\ current # goal

\* C12: in full-knowledge mode with bfs, ucs or astar and the goal at
\* shortest distance L, run(max_steps) with max_steps >= L returns
\* reached_goal = true, cost = steps = L and replans = 0.
C12_FullMapOptimal ==
  (/\ full_map = TRUE /\ search.algo \in {"bfs", "ucs", "astar"}
   /\ GoalReachable
   /\ run_pc = "returned" /\ max_steps >= ShortestLen) =>
    /\ metrics.reached_goal
    /\ metrics.cost = ShortestLen
    /\ metrics.steps = ShortestLen
    /\ metrics.replans = 0

\* The budget is exactly the distance, and the route goes around a wall.
C12_Witness ==
  /\ full_map = TRUE /\ search = [algo |-> "ucs", stats |-> TRUE]
  /\ run_pc = "returned" /\ max_steps = 2 /\ ShortestLen = 2
  /\ manhattan(start, goal) = 2 /\ \E w \in Cells : grid[w] = "1"
  /\ metrics.reached_goal /\ metrics.steps = 2

\* C13: path_taken begins with start, ends with the current position and has
\* steps + 1 elements, from construction on; a step that moves appends
\* exactly the new position and adds one to steps, and one that does not
\* move changes neither.
C13_PathTaken ==
  /\ [](/\ metrics.path_taken # <<>>
        /\ Head(metrics.path_taken) = start
        /\ metrics.path_taken[Len(metrics.path_taken)] = current
        /\ Len(metrics.path_taken) = metrics.steps + 1)
  /\ [][IF current' # current
        THEN /\ metrics'.path_taken = Append(metrics.path_taken, current')
             /\ metrics'.steps = metrics.steps + 1
        ELSE /\ metrics'.path_taken = metrics.path_taken
             /\ metrics'.steps = metrics.steps]_vars

\* A fog agent that moved three times to a frontier cell, and then made a
\* step that only dropped the finished plan.
C13_Witness ==
  /\ full_map = FALSE /\ metrics.steps = 3 /\ stalled = 1
  /\ Len(metrics.path_taken) = 4 /\ cont = "continue" /\ current # goal
  /\ current_plan = <<>>

\* C14: when run(max_steps) has returned, by a done step or by an exhausted
\* budget, reached_goal is true exactly when the agent is on the goal, and
\* cost = len(path_taken) - 1 = steps, also with a with-stats search.
C14_RunFinalMetrics ==
  run_pc = "returned" =>
    /\ metrics.reached_goal <=> (current = goal)
    /\ metrics.cost = Len(metrics.path_taken) - 1
    /\ metrics.cost = metrics.steps

\* The budget ran out after one move of a longer plan made by a with-stats
\* search (which had set cost to the plan's length).
C14_Witness ==
  /\ run_pc = "returned" /\ search.stats = TRUE /\ max_steps = 1
  /\ cont = "continue" /\ Len(current_plan) >= 3
  /\ metrics.steps = 1 /\ metrics.cost = 1

\* C15: run(max_steps) calls step() at most max_steps times, so the agent
\* makes at most max_steps moves, and run(0) changes neither the agent's
\* position nor the grid.
C15_CooperativeBudget ==
  /\ [](run_pc # "idle" =>
          (run_calls <= max_steps /\ metrics.steps <= max_steps))
  /\ [][(run_pc' # "idle" /\ max_steps' = 0) =>
          (current' = current /\ grid' = grid /\ visible' = visible)]_vars

\* A run that spent its whole budget of two calls, each a move.
C15_Witness ==
  /\ run_pc = "returned" /\ max_steps = 2 /\ run_calls = 2
  /\ metrics.steps = 2 /\ cont = "continue"

\* C16: known_passable and known_walls are disjoint, hold only Wall tiles
\* (known_walls) and only Free/Start/Goal tiles (known_passable), and never
\* lose an element.
C16_KnownSets ==
  /\ [](/\ known_passable \cap known_walls = {}
        /\ \A p \in known_walls : p \in Cells /\ grid[p] = "1"
        /\ \A p \in known_passable : p \in Cells /\ grid[p] \in {"0", "S", "G"})
  /\ [][/\ known_passable \subseteq known_passable'
        /\ known_walls \subseteq known_walls']_vars

\* A fog agent that has learnt walls and free cells beyond its first look.
C16_Witness ==
  /\ full_map = FALSE /\ metrics.steps >= 2
  /\ Cardinality(known_walls) = 2 /\ Cardinality(known_passable) = 4

\* The positions reveal_from has been called with: the last call of another
\* client, and (under fog) every position the agent has stood on.
RevealedFrom ==
  (IF last_reveal.pos # <<>> THEN {last_reveal.pos} ELSE {})
    \cup (IF full_map = FALSE THEN SeqSet(metrics.path_taken) ELSE {})

\* C17: after reveal_from(pos), every wall that is a 4-neighbour of pos is
\* visible, is not passable, is returned by get_visible_neighbors for no
\* argument, and is not in a fog-mode agent's known_passable.
C17_WallsVisibleNotPassable ==
  \A pos \in RevealedFrom :
    \A w \in {q \in Cells : manhattan(pos, q) = 1 /\ grid[q] = "1"} :
      /\ is_visible(visible, w[1], w[2]) = TRUE
      /\ passable(grid, w[1], w[2]) = PyFalse
      /\ \A arg \in QueryPositions :
           w \notin SeqSet(get_visible_neighbors(grid, visible, arg))
      /\ full_map = FALSE => w \notin known_passable

\* Another client revealed around a cell next to a wall, and the fog agent
\* has walked past a wall of its own.
C17_Witness ==
  /\ full_map = FALSE /\ ext >= 1 /\ metrics.steps >= 2
  /\ \E w \in Cells : grid[w] = "1" /\ manhattan(last_reveal.pos, w) = 1
                      /\ w \in SeqSet(last_reveal.ret)
  /\ \E w \in known_walls : manhattan(current, w) = 1

\* The place of cell q among the four moves (Up, Right, Down, Left) from pos.
Rank(pos, q) ==
  CHOOSE i \in 1 .. 4 : q = <<pos[1] + Moves[i][1], pos[2] + Moves[i][2]>>

\* xs lists exactly the cells of S, each once, in Up, Right, Down, Left order
\* from pos.
ListsInOrder(xs, S, pos) ==
  /\ SeqSet(xs) = S
  /\ NoRepeats(xs)
  /\ \A i, j \in 1 .. Len(xs) : i < j => Rank(pos, xs[i]) < Rank(pos, xs[j])

\* C18: get_visible_neighbors(pos) lists exactly the 4-neighbours of pos that
\* are visible and passable, in neighbors4 order; it is empty for every pos
\* while nothing has been revealed.
C18_VisibleNeighbors ==
  q_fn = "get_visible_neighbors" =>
    /\ ListsInOrder(q_ret,
                    {q \in Cells : /\ q_pos \in Cells
                                   /\ manhattan(q_pos, q) = 1
                                   /\ q \in visible
                                   /\ grid[q] \in {"0", "S", "G"}},
                    q_pos)
    /\ visible = {} => q_ret = <<>>

\* One neighbour is listed; a visible wall and a hidden free cell are not.
C18_Witness ==
  /\ q_fn = "get_visible_neighbors" /\ Len(q_ret) = 1
  /\ \E w, h \in Cells :
       /\ manhattan(q_pos, w) = 1 /\ w \in visible /\ grid[w] = "1"
       /\ manhattan(q_pos, h) = 1 /\ h \notin visible /\ grid[h] = "0"

\* C19: for an in-bounds (r, c), neighbors4(r, c) lists exactly the in-bounds
\* cells among Up, Right, Down, Left, in that order; for an out-of-bounds
\* (r, c) it is the empty list.
C19_Neighbors4 ==
  q_fn = "neighbors4" =>
    IF q_pos \in Cells
    THEN ListsInOrder(q_ret, {q \in Cells : manhattan(q_pos, q) = 1}, q_pos)
    ELSE q_ret = <<>>

\* The bottom-left corner: Up and Right only.
C19_Witness ==
  /\ q_fn = "neighbors4" /\ q_pos = <<Height - 1, 0>>
  /\ q_ret = << <<Height - 2, 0>>, <<Height - 1, 1>> >>

\* C20: for every out-of-bounds (r, c), passable(r, c) and is_wall(r, c)
\* return the boolean False.
C20_OutOfBoundsFalse ==
  (q_fn \in {"passable", "is_wall"} /\ q_pos \notin Cells) => q_ret = PyFalse

\* C21: after a successful load, no Grid operation raises, whatever integer
\* coordinates it is called with.
C21_NoGridOperationRaises == q_fn # None => q_raised = None

\* The places of symbol s in the rows, counted from 0.
PlacesOf(rows, s) ==
  {<<r - 1, c - 1>> : r \in 1 .. Len(rows), c \in 1 .. MaxCols} \cap
  {p \in (0 .. MaxRows) \X (0 .. MaxCols) :
     /\ p[1] + 1 <= Len(rows) /\ p[2] + 1 <= Len(rows[p[1] + 1])
     /\ rows[p[1] + 1][p[2] + 1] = s}

\* A well-formed map: a row at least, all rows as long as the first, only
\* the four symbols, one S and one G.
WellFormed(rows) ==
  /\ Len(rows) >= 1
  /\ \A r \in 1 .. Len(rows) : Len(rows[r]) = Len(rows[1])
  /\ PlacesOf(rows, "x") = {}
  /\ Cardinality(PlacesOf(rows, "S")) = 1
  /\ Cardinality(PlacesOf(rows, "G")) = 1

\* C22: Grid.from_csv succeeds exactly on a well-formed map; then height and
\* width are the numbers of rows and columns (both positive), start and goal
\* are the places of S and G, and the mask has the grid's shape and is all
\* False; otherwise it raises a ValueError and returns no Grid.
C22_FromCsvValidation ==
  load_pc # "call" =>
    IF WellFormed(csv_rows)
    THEN /\ loaded.raised = None
         /\ loaded.grid = csv_rows
         /\ loaded.height = Len(csv_rows) /\ loaded.height > 0
         /\ loaded.width = Len(csv_rows[1]) /\ loaded.width > 0
         /\ PlacesOf(csv_rows, "S") = {loaded.start}
         /\ PlacesOf(csv_rows, "G") = {loaded.goal}
         /\ Len(loaded.visible) = loaded.height
         /\ \A r \in 1 .. loaded.height :
              /\ Len(loaded.visible[r]) = loaded.width
              /\ \A c \in 1 .. loaded.width : loaded.visible[r][c] = FALSE
    ELSE loaded.raised = ValueError /\ loaded.grid = <<>>

\* A two-row map with a wall and a free cell loads.
C22_Witness ==
  /\ load_pc = "loaded" /\ loaded.raised = None
  /\ loaded.height = 2 /\ loaded.width = 3
  /\ loaded.start = <<1, 2>> /\ loaded.goal = <<0, 0>>
  /\ PlacesOf(csv_rows, "1") # {} /\ PlacesOf(csv_rows, "0") # {}

\* C24: constructing an OnlineAgent with anything but a Grid instance (a
\* path object, a path string, None) fails with a TypeError, in both modes.
C24_ConstructTypeError ==
  (load_pc = "constructed" /\ c_arg.grid # "Grid") => c_raised = TypeError

\* The entries in the frontier after the first k calls of the log: pushed
\* and not yet popped (no entry is pushed twice by ucs_neighbors).
InFrontier(log, k) ==
  {e \in {log[i][2] : i \in 1 .. k} :
     \E i \in 1 .. k :
       /\ log[i] = <<"push", e>>
       /\ \A j \in i + 1 .. k : log[j] # <<"pop", e>>}

\* The place in the log of the push of entry e.
PushedAt(log, e) == CHOOSE i \in 1 .. Len(log) : log[i] = <<"push", e>>

\* C23: in ucs_neighbors, among the frontier entries of equal accumulated
\* cost the one pushed earlier is popped first (ties are broken by heap
\* insertion order).
C23_UcsTiesInsertionOrder ==
  (s_pc # "call" /\ s_algo = "ucs") =>
    \A k \in 1 .. Len(s_plain.log) :
      s_plain.log[k][1] = "pop" =>
        \A e \in InFrontier(s_plain.log, k - 1) :
          e[1] = s_plain.log[k][2][1] =>
            PushedAt(s_plain.log, s_plain.log[k][2]) <= PushedAt(s_plain.log, e)

\* The transition is a step() call: a client's, or one of run()'s loop.
StepCall ==
  \/ run_pc = "idle" /\ run_pc' = "idle" /\ ext' = ext
  \/ run_calls' = run_calls + 1

\* A path from current to the goal over the neighbor function of the mode.
GoalPathKnown ==
  plain_search("bfs", current, goal,
               neighbor_fn(grid, full_map, visible)).path # <<>>

\* C25: step() calls the search only if current_plan is empty (and the
\* agent is off the goal); a step() that starts with a non-empty plan makes
\* no search call and leaves the plan as it is, without its head after a
\* move, or empty.
C25_SearchOnlyWithoutPlan ==
  [][StepCall =>
       /\ searches' > 0 => (current_plan = <<>> /\ current # goal)
       /\ current_plan # <<>> =>
            /\ searches' = 0
            /\ IF current' # current
               THEN /\ current_plan' = Tail(current_plan)
                    /\ current' = current_plan[2]
               ELSE current_plan' \in {current_plan, <<>>}]_vars

\* A step() has just moved the agent along a plan to a frontier cell that it
\* held, while a path to the goal was there to be found.
C25_Witness ==
  /\ cont = "continue" /\ searches = 0 /\ stalled = 0
  /\ metrics.steps >= 1
  /\ current_plan # <<>>
  /\ current_plan[Len(current_plan)] # goal
  /\ current # goal
  /\ GoalPathKnown

\* C28: a step() call that starts with a one-element plan off the goal does
\* not move the agent and calls no search: it empties the plan and returns
\* continue, changing nothing else; the step() call that starts with an empty
\* plan off the goal is the one that searches.
C28_ExhaustedPlanStep ==
  [][StepCall =>
       /\ (Len(current_plan) = 1 /\ current # goal) =>
            /\ current' = current
            /\ searches' = 0
            /\ current_plan' = <<>>
            /\ cont' = "continue"
            /\ metrics' = metrics
            /\ known_passable' = known_passable
            /\ known_walls' = known_walls
            /\ visible' = visible
       /\ (current_plan = <<>> /\ current # goal) => searches' >= 1]_vars

\* The step() after one that only emptied a one-element plan: it has planned
\* and moved.
C28_Witness ==
  /\ cont = "continue" /\ searches >= 1 /\ stalled = 0
  /\ metrics.steps >= 2
  /\ Len(metrics.path_taken) >= 3
  /\ ~full_map

\* The least number of moves from current to c through known-passable
\* cells; -1 if there is no such way.
KnownDist(c) == Flood({current}, known_passable, c, 0)

\* The cells choose_frontier is to choose from: reachable through
\* known-passable cells, with an in-bounds 4-neighbour the agent knows
\* nothing about.
FrontierCells ==
  {c \in Cells :
     /\ KnownDist(c) >= 0
     /\ \E nb \in Cells :
          /\ manhattan(c, nb) = 1
          /\ nb \notin known_passable /\ nb \notin known_walls}

\* xs without the entries that are in seq or earlier in xs, put after seq.
RECURSIVE AppendNew(_, _)
AppendNew(seq, xs) ==
  IF xs = <<>> THEN seq
  ELSE IF Head(xs) \in SeqSet(seq) THEN AppendNew(seq, Tail(xs))
  ELSE AppendNew(Append(seq, Head(xs)), Tail(xs))

\* The known-passable cells next to p, in the order Up, Right, Down, Left.
UrdlKnown(p) ==
  LET around == << <<p[1] - 1, p[2]>>, <<p[1], p[2] + 1>>,
                   <<p[1] + 1, p[2]>>, <<p[1], p[2] - 1>> >>
  IN SelectSeq(around, LAMBDA q : q \in known_passable)

\* The breadth-first order of the cells reachable from current: seq lists
\* the cells found so far, those before place i have been expanded.
RECURSIVE BfsOrder(_, _)
BfsOrder(seq, i) ==
  IF i > Len(seq) THEN seq
  ELSE BfsOrder(AppendNew(seq, UrdlKnown(seq[i])), i + 1)

\* C26: choose_frontier() returns a cell of FrontierCells at the least
\* distance from current, the first such cell in the breadth-first order with
\* Up, Right, Down, Left expansion; it returns None exactly when FrontierCells
\* is empty; it changes no agent or grid state.
C26_ChooseFrontier ==
  /\ [](q_fn = "choose_frontier" =>
         /\ (q_ret = NoFrontier) <=> (FrontierCells = {})
         /\ q_ret # NoFrontier =>
              /\ q_ret \in FrontierCells
              /\ \A c \in FrontierCells : KnownDist(q_ret) <= KnownDist(c)
              /\ LET order == BfsOrder(<<current>>, 1)
                     first == CHOOSE i \in 1 .. Len(order) :
                                /\ order[i] \in FrontierCells
                                /\ \A j \in 1 .. i - 1 :
                                     order[j] \notin FrontierCells
                 IN q_ret = order[first])
  /\ [][q_fn' = "choose_frontier" /\ q_fn = None =>
          UNCHANGED <<grid_vars, agent_vars>>]_vars

\* A call that had two frontier cells at the least distance to choose from,
\* away from current.
C26_Witness ==
  /\ q_fn = "choose_frontier" /\ q_ret # NoFrontier
  /\ q_ret # current
  /\ Cardinality({c \in FrontierCells : KnownDist(c) = KnownDist(q_ret)}) >= 2

\* C27: on a grid revealed only by this agent, step() returns done exactly
\* when the agent is on the goal, or (Stuck) has no plan, no path to the goal
\* is to be found and no frontier cell is reachable; a Stuck step() leaves
\* current, steps and path_taken alone and reached_goal false; every other
\* step() returns continue.
C27_DoneIffGoalOrStuck ==
  [][StepCall =>
       LET Stuck == /\ current # goal
                    /\ current_plan = <<>>
                    /\ ~GoalPathKnown
                    /\ FrontierCells = {}
       IN /\ cont' \in {"done", "continue"}
          /\ cont' = "done" <=> (current = goal \/ Stuck)
          /\ Stuck =>
               /\ current' = current
               /\ metrics'.steps = metrics.steps
               /\ metrics'.path_taken = metrics.path_taken
               /\ metrics.reached_goal = FALSE
               /\ metrics'.reached_goal = FALSE]_vars

\* A fog agent that walked, found the goal walled off and ended Stuck.
C27_Witness ==
  /\ cont = "done" /\ current # goal
  /\ ~full_map /\ metrics.steps >= 2
  /\ current_plan = <<>>
  /\ metrics.reached_goal = FALSE
  /\ run_pc = "idle"

\* C29: the step() call that moves the agent onto the goal returns continue
\* and leaves reached_goal false; a step() call that starts on the goal (the
\* next one) sets reached_goal, returns done and does not move; in every
\* state reached_goal = true implies current = goal.
C29_ArrivalThenDone ==
  /\ [](metrics.reached_goal = TRUE => current = goal)
  /\ [][StepCall =>
          /\ (current # goal /\ current' = goal) =>
               /\ cont' = "continue"
               /\ metrics.reached_goal = FALSE
               /\ metrics'.reached_goal = FALSE
          /\ current = goal =>
               /\ cont' = "done"
               /\ metrics'.reached_goal = TRUE
               /\ current' = current
               /\ metrics'.steps = metrics.steps
               /\ metrics'.path_taken = metrics.path_taken]_vars

\* The step() after the arrival has returned done on the goal.
C29_Witness ==
  /\ run_pc = "idle" /\ cont = "done" /\ stalled = 1
  /\ current = goal /\ metrics.reached_goal = TRUE
  /\ metrics.steps >= 2

\* C30: under fog, on a grid all hidden at construction and revealed only by
\* this agent, after construction and after every step() the visible cells
\* are the positions of path_taken and their in-bounds 4-neighbours.
C30_VisibleIsRadiusOneOfPath ==
  full_map = FALSE =>
    visible = UNION {RadiusOne(p) : p \in SeqSet(metrics.path_taken)}

\* After three moves under fog a cell is still hidden.
C30_Witness ==
  /\ full_map = FALSE /\ metrics.steps >= 3
  /\ visible # Cells
  /\ cont = "continue" /\ stalled = 0

\* Consecutive entries of xs are 4-adjacent.
Connected(xs) ==
  \A i \in 1 .. Len(xs) - 1 : manhattan(xs[i], xs[i + 1]) = 1

\* C31: after construction and after every step() call current_plan is
\* empty, or starts at current, joins 4-adjacent cells and holds only
\* passable cells, all of them visible under fog.
C31_PlanWellFormed ==
  current_plan # <<>> =>
    /\ current_plan[1] = current
    /\ Connected(current_plan)
    /\ \A i \in 1 .. Len(current_plan) :
         /\ current_plan[i] \in Cells
         /\ grid[current_plan[i]] # "1"
         /\ full_map = FALSE => current_plan[i] \in visible

\* A fog agent holds a plan of two cells or more after a move.
C31_Witness ==
  /\ full_map = FALSE /\ cont = "continue" /\ stalled = 0
  /\ metrics.steps >= 1
  /\ Len(current_plan) >= 2
  /\ known_walls # {}

\* C32: under fog, on a grid revealed only by this agent, a coordinate is in
\* known_passable or known_walls exactly when it is visible, and the
\* known-passable graph of choose_frontier is the get_visible_neighbors graph
\* of plan_to.
C32_BeliefSynchronized ==
  full_map = FALSE =>
    /\ known_passable \cup known_walls = visible
    /\ \A p \in Cells :
         SeqSet(known_neighbors(known_passable, p)) =
           SeqSet(get_visible_neighbors(grid, visible, p))

\* A fog agent that has moved, knows a wall and has not seen every cell.
C32_Witness ==
  /\ full_map = FALSE /\ metrics.steps >= 2
  /\ known_walls # {} /\ visible # Cells
  /\ cont = "continue"

\* C34: when only the agent's own perception changes known_walls,
\* metrics.replans stays 0, in both modes and for every search.
C34_NoReplans == metrics.replans = 0

\* A run under fog that met walls, walked three moves and returned.
C34_Witness ==
  /\ run_pc = "returned" /\ full_map = FALSE
  /\ metrics.steps >= 3 /\ known_walls # {}
  /\ metrics.replans = 0

\* C35: current is always an in-bounds passable cell, no transition moves it
\* by more than one 4-adjacent move, and consecutive entries of path_taken
\* are 4-adjacent passable cells.
C35_NoWallNoTeleport ==
  /\ [](/\ current \in Cells /\ grid[current] # "1"
        /\ Connected(metrics.path_taken)
        /\ \A i \in 1 .. Len(metrics.path_taken) :
             /\ metrics.path_taken[i] \in Cells
             /\ grid[metrics.path_taken[i]] # "1")
  /\ [][manhattan(current, current') <= 1]_vars

\* A run that walked four moves past a wall.
C35_Witness ==
  /\ metrics.steps >= 4 /\ Len(metrics.path_taken) = metrics.steps + 1
  /\ \E w \in Cells : grid[w] = "1" /\ manhattan(w, current) = 1

\* C37: once step() has returned done, every later step() call returns done
\* and leaves current, steps, replans, path_taken, known_passable,
\* known_walls and the mask unchanged.
C37_TerminalAbsorbing ==
  [][(StepCall /\ cont = "done") =>
       /\ cont' = "done"
       /\ current' = current
       /\ metrics'.steps = metrics.steps
       /\ metrics'.replans = metrics.replans
       /\ metrics'.path_taken = metrics.path_taken
       /\ known_passable' = known_passable
       /\ known_walls' = known_walls
       /\ visible' = visible]_vars

\* Two more step() calls after the done return, on the goal.
C37_Witness ==
  /\ cont = "done" /\ stalled = 3 /\ run_pc = "idle"
  /\ current = goal /\ metrics.steps >= 1

\* C38: in full-knowledge mode the mask stays all False through
\* construction, step() and run(), known_passable and known_walls together
\* hold every cell, and choose_frontier() returns None.
C38_FullMapNeverReveals ==
  full_map = TRUE =>
    /\ visible = {}
    /\ known_passable \cup known_walls = Cells
    /\ choose_frontier(Agent) = NoFrontier

\* A full-map run that walked to the goal and returned.
C38_Witness ==
  /\ full_map = TRUE /\ run_pc = "returned"
  /\ metrics.steps >= 2 /\ metrics.reached_goal = TRUE
  /\ known_walls # {}

\* Following the parents from node x ends within k steps at a node that has
\* no parent.
RECURSIVE ChainEnds(_, _, _)
ChainEnds(cf, x, k) ==
  IF x \notin DOMAIN cf THEN TRUE
  ELSE IF k = 0 THEN FALSE
  ELSE ChainEnds(cf, cf[x], k - 1)

\* The nodes of the graph searched.
SearchNodes == IF s_kind = "grid" THEN Cells ELSE GraphNodes

C36_SharedGridBothDone ==
  /\ <>(cont = "done")
  /\ <>(other.cont = "done")
  /\ GoalReachable => <>(current = goal) /\ <>(other_current = goal)

====
